---- MODULE Spec2Model ----
(***************************************************************************)
(* FlowGraphLib: the graph (Graph<T>, the GraphBase variant with the error *)
(* table), its nodes (Node<T>::compute) and the per-node fractal store.    *)
(*                                                                         *)
(* Nodes are identified by their names.  An edge is the pair of its end    *)
(* points: edges_ holds shared_ptr<Edge>, so the program can hold two Edge *)
(* objects with the same end points; every loop over edges_ in the code    *)
(* modelled here behaves the same for one or for several such copies, so   *)
(* the model keeps the set of end-point pairs.                             *)
(*                                                                         *)
(* Task<T> starts eagerly (initial_suspend is suspend_never) and the test  *)
(* nodes' compute_impl never suspends, so a call of execute_node_async or  *)
(* Node::compute runs to completion on the calling thread before the       *)
(* caller continues.  The order in which an unordered_set / unordered_map  *)
(* is iterated is unspecified: it is a nondeterministic choice here.       *)
(*                                                                         *)
(* Beside the graph, the module models the parts used on their own: a      *)
(* consumer coroutine awaiting Task<T> objects that complete on other      *)
(* threads, the ThreadPool, one node called directly by the user, and a    *)
(* FractalTreeNode<double>.  Each has its own specification; the variables *)
(* of the other parts keep their initial values in it.                     *)
(***************************************************************************)
EXTENDS Integers, Sequences, FiniteSets, TLC

\* ------------------------------------------------------------------ bounds
Names == {"a", "b", "c", "d"}       \* node names used by the executor runs
GraphNames == {"a", "b", "c"}       \* node names used by the graph-editing runs
MaxCallbacks == 2                   \* add_node calls per node (each appends a callback)
MaxRuns == 1                        \* execute calls of an executor run
MaxReruns == 2                      \* execute calls of a run with recovery between them
MaxPasses == 1                      \* registered optimization passes
MaxFailing == 2                     \* nodes whose compute_impl fails, initially
MaxTasks == 3                       \* producer tasks a consumer coroutine awaits, one after the other
MaxSubmits == 3                     \* enqueue calls on a thread pool
MaxComputes == 3                    \* direct Node::compute calls by the user
MaxStores == 3                      \* store calls on a fractal store used on its own
MaxCacheOps == 5                    \* store / get / clear calls on a cache with a policy

None == "none"                      \* std::nullopt / absent

VARIABLES
    nodes_,                 \* Graph::nodes_
    edges_,                 \* Graph::edges_
    node_errors_,           \* Graph::node_errors_  (name -> ErrorState)
    optimization_passes_,   \* Graph::optimization_passes_
    cache_,                 \* Graph::cache_ (GraphCache::cache_, no policy)
    parent_graph_,          \* Node::parent_graph_ is set, per node
    completion_callbacks_,  \* Node::completion_callbacks_, per node
    value_storage_,         \* Node::value_storage_, per node
    computation_count_,     \* Node::computation_count_, per node
    current_precision_level_, \* Node::current_precision_level_, per node
    error_type_,            \* what the node's compute_impl does (ErrorTestNode::error_type_)
    pc,                     \* position of Graph::execute
    todo,                   \* execute: source nodes the scheduling loop has not reached yet
    tasks,                  \* execute: local vector tasks (node, completed task result)
    awaited,                \* execute: number of tasks the await loop has consumed
    visited,                \* execute: local set visited
    ptodo,                  \* execute: nodes the current propagation pass has not reached yet
    changed,                \* execute: local flag changed
    runs,                   \* number of execute calls so far
    lastOp,                 \* the last add_edge call: its argument, outcome and the edge set before it
    trace,                  \* observation log of the current execute (compute_impl calls, results, callbacks, table writes)
    shared_state_,          \* Task::SharedState of each producer task (promise_fulfilled_, continuation_)
    producer,               \* position of each producer coroutine
    consumer,               \* the consumer coroutine: its position, the task it awaits, how often each await was continued
    tasks_,                 \* ThreadPool::tasks_ (the queue; a task is the number of its enqueue call)
    stop_,                  \* ThreadPool::stop_
    workers_,               \* ThreadPool::workers_: each worker thread's position and the task it holds
    pool_log,               \* observation log of the pool: enqueue calls, accepted tasks, runs per task, queue length at shutdown
    min_precision_level_,   \* Node::min_precision_level_, per node
    max_precision_level_,   \* Node::max_precision_level_, per node
    calls,                  \* number of direct Node::compute calls so far
    tree,                   \* a FractalTreeNode<double> used on its own (fractal_tree_test.cpp)
    tree_log,               \* the store and merge_all calls made on tree, in order
    policy_,                \* GraphCache::policy_ of a cache with a policy (the policy object's fields)
    gcache_,                \* GraphCache::cache_ of that cache
    cache_log,              \* observation log of that cache: number of calls, time of each value's last use, last call
    mutex_,                 \* Node::mutex_, per node: the thread that holds it
    error_mutex_,           \* Graph::error_mutex_: the thread that holds it
    threads                 \* the call each thread is in and the lock and unlock operations it has still to do

graphVars == <<nodes_, edges_, node_errors_, optimization_passes_, cache_>>
nodeVars == <<parent_graph_, completion_callbacks_, value_storage_,
              computation_count_, current_precision_level_, error_type_>>
execVars == <<pc, todo, tasks, awaited, visited, ptodo, changed, runs>>
taskVars == <<shared_state_, producer, consumer>>
poolVars == <<tasks_, stop_, workers_, pool_log>>
windowVars == <<min_precision_level_, max_precision_level_, calls>>
treeVars == <<tree, tree_log>>
cacheVars == <<policy_, gcache_, cache_log>>
lockVars == <<mutex_, error_mutex_, threads>>
sideVars == <<taskVars, poolVars, windowVars, treeVars, cacheVars, lockVars>>
mainVarsButLastOp == <<graphVars, nodeVars, execVars, trace>>
mainVars == <<mainVarsButLastOp, lastOp>>
vars == <<mainVars, sideVars>>

\* ------------------------------------------------------------ graph queries
Edge(f, t) == [from |-> f, to |-> t]

\* Graph::get_incoming_edges
get_incoming_edges(E, n) == {e \in E : e.to = n}

\* Graph::get_outgoing_edges
get_outgoing_edges(E, n) == {e \in E : e.from = n}

\* Graph::get_output_nodes
get_output_nodes(N, E) == {n \in N : get_outgoing_edges(E, n) = {}}

\* Graph::detect_cycle: depth-first search along outgoing edges; visited is
\* the set of nodes on the current search path (a node is erased from it
\* when its search returns false).  True as soon as the search meets a node
\* that is on its own path.
RECURSIVE detect_cycle(_, _, _)
detect_cycle(node, vis, E) ==
    IF node \in vis THEN TRUE
    ELSE \E e \in E : e.from = node /\ detect_cycle(e.to, vis \cup {node}, E)

\* Graph::has_cycle: the search starts at the new edge's head, over the
\* edges already in the graph; the new edge itself and its tail are not used.
has_cycle(new_edge, E) == detect_cycle(new_edge.to, {}, E)

\* ---------------------------------------------------- reachability (for claims)
RECURSIVE ReachSet(_, _)
ReachSet(S, E) ==
    LET S2 == S \cup {e.to : e \in {x \in E : x.from \in S}}
    IN IF S2 = S THEN S ELSE ReachSet(S2, E)

\* t is reachable from f along one or more edges of E
Reaches(f, t, E) == t \in ReachSet({e.to : e \in get_outgoing_edges(E, f)}, E)

\* t is reachable from f along zero or more edges of E
ReachesOrSame(f, t, E) == f = t \/ Reaches(f, t, E)

AcyclicEdges(E) == \A e \in E : ~Reaches(e.from, e.from, E)

\* ------------------------------------------------------------- small helpers
MapPut(m, k, v) == [x \in (DOMAIN m) \cup {k} |-> IF x = k THEN v ELSE m[x]]
MapErase(m, k) == [x \in (DOMAIN m) \ {k} |-> m[x]]
EmptyMap == [x \in {} |-> None]
Abs(x) == IF x < 0 THEN -x ELSE x
RECURSIVE Pow10(_)
Pow10(k) == IF k <= 0 THEN 1 ELSE 10 * Pow10(k - 1)

\* ------------------------------------------------- ErrorState / ComputeResult
\* ErrorState: type_, source_node_ (None = unset), propagation_path_.
\* (message_ is a text derived from type and node; it is not modelled.)
ErrorState(type, source, path) == [type |-> type, source |-> source, path |-> path]
NoError == ErrorState("None", None, <<>>)

\* ErrorState::set_source_node
set_source_node(e, name) == [e EXCEPT !.source = name]

\* ErrorState::add_propagation_path
add_propagation_path(e, name) == [e EXCEPT !.path = Append(@, name)]

\* ComputeResult<T>(value) / ComputeResult<T>(error)
ResultValue(v) == [has_error |-> FALSE, value |-> v, error |-> NoError]
ResultError(e) == [has_error |-> TRUE, value |-> 0, error |-> e]

\* ------------------------------------------------------------ FractalTreeNode
\* Values of T = double are kept in thousandths (42.0 is 42000): sums and
\* products are exact, a division truncates below one thousandth.
Unit == Pow10(3)
merge_threshold_ == 10

FractalTreeNode(max_depth, compression_threshold) ==
    [max_depth_ |-> max_depth, compression_threshold_ |-> compression_threshold,
     absolute_values_ |-> EmptyMap, pending_updates_ |-> EmptyMap]

\* the clamp at the head of store and get
ClampLevel(fs, level) == IF level > fs.max_depth_ THEN fs.max_depth_ ELSE level

\* FractalTreeNode::merge_level, the loop folding updates 2..n into the first
RECURSIVE WeightedMerge(_, _, _, _)
WeightedMerge(updates, i, merged_value, total_weight) ==
    IF i > Len(updates) THEN merged_value
    ELSE LET new_weight == total_weight + updates[i].weight
         IN WeightedMerge(updates, i + 1,
                (merged_value * total_weight + updates[i].value * updates[i].weight) \div new_weight,
                new_weight)

\* FractalTreeNode::merge_level
merge_level(fs, level) ==
    IF level \notin DOMAIN fs.pending_updates_ \/ fs.pending_updates_[level] = <<>>
    THEN fs
    ELSE LET updates == fs.pending_updates_[level]
             merged_value == WeightedMerge(updates, 2, updates[1].value, updates[1].weight)
             new_abs == IF level \in DOMAIN fs.absolute_values_
                        THEN (fs.absolute_values_[level] * 7 + merged_value * 3) \div 10
                        ELSE merged_value
         IN [fs EXCEPT !.absolute_values_ = MapPut(@, level, new_abs),
                       !.pending_updates_ = MapPut(@, level, <<>>)]

\* FractalTreeNode::difference (arithmetic T)
difference(a, b) == Abs(a - b)

\* FractalTreeNode::compress_tree
compress_tree_keeps_all(fs) == fs

compress_tree(fs) ==
    LET av == fs.absolute_values_
        levels_to_remove == {l \in DOMAIN av : l > 0 /\ (l - 1) \in DOMAIN av
                                /\ difference(av[l], av[l - 1]) < fs.compression_threshold_}
    IN [fs EXCEPT !.absolute_values_ = [l \in (DOMAIN av) \ levels_to_remove |-> av[l]]]

\* FractalTreeNode::merge_all (the levels are merged independently of each other)
RECURSIVE MergeLevels(_, _)
MergeLevels(fs, levels) ==
    IF levels = {} THEN fs
    ELSE LET l == CHOOSE x \in levels : TRUE
         IN MergeLevels(merge_level(fs, l), levels \ {l})

merge_all_uncompressed(fs) == MergeLevels(fs, DOMAIN fs.pending_updates_)

merge_all(fs) == compress_tree(MergeLevels(fs, DOMAIN fs.pending_updates_))

\* FractalTreeNode::store
store(fs, value, precision_level) ==
    LET level == ClampLevel(fs, precision_level)
        old == IF level \in DOMAIN fs.pending_updates_ THEN fs.pending_updates_[level] ELSE <<>>
        fs1 == [fs EXCEPT !.pending_updates_ =
                    MapPut(@, level, Append(old, [value |-> value, weight |-> 1]))]
    IN IF Len(old) + 1 >= merge_threshold_ THEN merge_level(fs1, level) ELSE fs1

\* FractalTreeNode::expand_value: round(value * 10^d) / 10^d, half away from zero
expand_value(value, from_level, to_level) ==
    LET d == to_level - from_level
    IN IF d >= 3 THEN value
       ELSE LET q == Pow10(3 - d)
                m == (Abs(value) + q \div 2) \div q
            IN IF value < 0 THEN -(m * q) ELSE m * q

\* std::optional<T>
Some(v) == [has_value |-> TRUE, value |-> v]
Nullopt == [has_value |-> FALSE, value |-> 0]

\* FractalTreeNode::get
get(fs, precision_level) ==
    LET level == ClampLevel(fs, precision_level)
        av == fs.absolute_values_
        below == {l \in DOMAIN av : l < level}
    IN IF level \in DOMAIN av THEN Some(av[level])
       ELSE IF below # {}
            THEN LET l == CHOOSE x \in below : \A y \in below : y <= x
                 IN Some(expand_value(av[l], l, level))
            ELSE Nullopt

\* ------------------------------------------------------------------- Node
max_precision_depth == 8            \* Node(name, max_precision_depth = 8, ...)
compression_threshold == 1          \* ... compression_threshold = 0.001, in thousandths
MERGE_INTERVAL == 10
Answer == 42 * Unit                 \* ErrorTestNode: co_return ComputeResult<T>(T{42})

\* What a node's compute_impl can do: return the value, return an error that
\* names the node as source, return an error without a source, throw
ErrorTypes == {"None", "PrecisionError", "Unsourced", "Throws"}
ReturningTypes == ErrorTypes \ {"Throws"}

\* Threads: the thread that calls Graph::execute, and the workers of the
\* graph's ThreadPool (ThreadPool::workers_)
CallerThread == "caller"
PoolWorkers == {"w1", "w2"}

\* The part of the program state that Node::compute and
\* Graph::execute_node_async read and write, as one record:
\*   errors  = Graph::node_errors_        storage = Node::value_storage_
\*   count   = Node::computation_count_   level   = Node::current_precision_level_
\*   cache   = Graph::cache_              visited = execute's local set
\*   trace   = the observation log
\*   thread  = the thread the call runs on
Work == [errors |-> node_errors_, storage |-> value_storage_, count |-> computation_count_,
         level |-> current_precision_level_, cache |-> cache_, visited |-> visited,
         trace |-> trace, thread |-> CallerThread]

\* impl: the nodes whose compute_impl was invoked, in order; results: the
\* result each Node::compute resolved with; notified: the result each node's
\* completion callbacks were last called with; passes: the optimization
\* passes run; threads, levels: the thread each compute_impl of impl ran on and
\* the precision level it was called for
\* -- all since the last call of execute; before: the names that had an entry
\* in the error table when execute was called
\* rounds: the passes of the propagation loop that changed the table
EmptyTrace == [impl |-> <<>>, results |-> EmptyMap, notified |-> EmptyMap, passes |-> <<>>,
               before |-> {}, threads |-> <<>>, levels |-> <<>>, rounds |-> 0]

\* Graph::get_node_error
get_node_error_none(errors, name) == Nullopt

get_node_error(errors, name) == IF name \in DOMAIN errors THEN Some(errors[name]) ELSE Nullopt

\* ErrorTestNode::compute_impl (CONTRIBUTING.md), plus a compute_impl that
\* returns an error without a source and one that throws
compute_impl(n) ==
    CASE error_type_[n] = "None" -> [throws |-> FALSE, result |-> ResultValue(Answer)]
      [] error_type_[n] = "PrecisionError" ->
            [throws |-> FALSE, result |-> ResultError(ErrorState("PrecisionError", n, <<>>))]
      [] error_type_[n] = "Unsourced" ->
            [throws |-> FALSE, result |-> ResultError(ErrorState("ComputationError", None, <<>>))]
      [] OTHER -> [throws |-> TRUE, result |-> ResultError(NoError)]

\* The callback Graph::add_node registers ("graph") and a user callback
\* ("user", README: error-aware callback), called with a result
RECURSIVE RunCallbacks(_, _, _, _)
RunCallbacks(n, i, result, s) ==
    IF i > Len(completion_callbacks_[n]) THEN s
    ELSE LET s1 == [s EXCEPT !.trace.notified = MapPut(@, n, result)]
             s2 == IF completion_callbacks_[n][i] = "graph" /\ result.has_error
                   THEN [s1 EXCEPT !.errors =
                            MapPut(@, IF result.error.source = None THEN "" ELSE result.error.source,
                                   result.error)]
                   ELSE s1
         IN RunCallbacks(n, i + 1, result, s2)

\* Node::should_merge_updates, on the incremented counter
should_merge_updates(count) == count % MERGE_INTERVAL = 0

\* What Node::compute does once compute_impl has returned an error
ComputeError(n, s, e) ==
    LET error == IF e.source = None \/ e.source # n
                 THEN add_propagation_path(e, n)
                 ELSE set_source_node(e, n)
    IN [s |-> s, result |-> ResultError(error)]

\* What Node::compute does once compute_impl has returned a value
ComputeValue(n, precision_level, s, result) ==
    LET s1 == [s EXCEPT !.storage[n] = store(@, result.value, precision_level)]
        s2 == RunCallbacks(n, 1, result, s1)
        s3 == [s2 EXCEPT !.count[n] = @ + 1]
        s4 == IF should_merge_updates(s3.count[n])
              THEN [s3 EXCEPT !.storage[n] = merge_all(@)]
              ELSE s3
    IN [s |-> s4, result |-> result]

\* Node::compute, the test of the requested level against the window
PrecisionExceededAtDepth(precision_level, max_level) == precision_level > max_precision_depth

PrecisionExceeded(precision_level, max_level) == precision_level > max_level

\* Node::compute(precision_level); yields the state after the call and the
\* ComputeResult the task resolves with
NodeCompute(n, precision_level, s) ==
    LET out ==
        IF parent_graph_[n] /\ get_node_error(s.errors, n).has_value
        THEN [s |-> s, result |-> ResultError(get_node_error(s.errors, n).value)]
        ELSE IF PrecisionExceeded(precision_level, max_precision_level_[n])
        THEN [s |-> s, result |-> ResultError(ErrorState("PrecisionError", n, <<>>))]
        ELSE LET s1 == [s EXCEPT !.level[n] = precision_level]
                 cached == get(s1.storage[n], precision_level)
             IN IF cached.has_value
                THEN [s |-> s1, result |-> ResultValue(cached.value)]
                ELSE LET s2 == [s1 EXCEPT !.trace.impl = Append(@, n),
                                              !.trace.threads = Append(@, s.thread),
                                              !.trace.levels = Append(@, precision_level)]
                         r == compute_impl(n)
                     IN IF r.throws
                        THEN [s |-> s2, result |-> ResultError(ErrorState("ComputationError", n, <<>>))]
                        ELSE IF r.result.has_error
                        THEN ComputeError(n, s2, r.result.error)
                        ELSE ComputeValue(n, precision_level, s2, r.result)
    IN [s |-> [out.s EXCEPT !.trace.results = MapPut(@, n, out.result)], result |-> out.result]

\* GraphCache::get / GraphCache::store without a policy, as
\* execute_node_async uses them on a successful result
CacheResult(cache, value) == IF value \in cache THEN cache ELSE cache \cup {value}

\* ------------------------------------------------ Graph::execute_node_async
\* execute_node_async, after the dependency tasks have been awaited without error
ExecAfterDeps(node, s) ==
    IF DOMAIN s.errors # {}
    THEN \* "take the first error and propagate it": node_errors_.begin()
         {LET error == add_propagation_path(s.errors[k], node)
          IN [s |-> [s EXCEPT !.errors = MapPut(@, node, error)], result |-> ResultError(error)]
          : k \in DOMAIN s.errors}
    ELSE LET out == NodeCompute(node, 0, s)
         IN IF out.result.has_error
            THEN LET error == IF out.result.error.source = None
                              THEN set_source_node(out.result.error, node)
                              ELSE out.result.error
                 IN {[s |-> [out.s EXCEPT !.errors = MapPut(MapPut(@, error.source, error), node, error)],
                      result |-> out.result]}
            ELSE {[s |-> [out.s EXCEPT !.cache = CacheResult(@, out.result.value)],
                   result |-> out.result]}

\* execute_node_async, the loop awaiting the dependency tasks: the first
\* failed one ends the call
FirstError(results) ==
    IF \E i \in 1..Len(results) : results[i].has_error
    THEN CHOOSE i \in 1..Len(results) :
            results[i].has_error /\ \A j \in 1..(i - 1) : ~results[j].has_error
    ELSE 0

ExecDepFailed(node, s, result) ==
    LET e1 == add_propagation_path(result.error, node)
        error == IF e1.source = None THEN set_source_node(e1, node) ELSE e1
    IN [s |-> [s EXCEPT !.errors = MapPut(MapPut(@, error.source, error), node, error)],
        result |-> ResultError(error)]

RECURSIVE execute_node_async(_, _)
RECURSIVE ExecDeps(_, _, _, _)

\* execute_node_async, the loop over edges_ that starts the tasks of the
\* predecessors not yet visited; the set of outcomes over all iteration orders
ExecDeps(node, remaining, s, dep_results) ==
    IF remaining = {} THEN {[s |-> s, results |-> dep_results]}
    ELSE UNION {
            IF e.to = node /\ e.from \notin s.visited
            THEN UNION {ExecDeps(node, remaining \ {e}, out.s, Append(dep_results, out.result))
                        : out \in execute_node_async(e.from, s)}
            ELSE ExecDeps(node, remaining \ {e}, s, dep_results)
            : e \in remaining}

\* Graph::execute_node_async(node, visited): the set of possible outcomes
execute_node_async(node, s) ==
    LET s1 == [s EXCEPT !.visited = @ \cup {node}]
    IN UNION {
         LET i == FirstError(d.results)
         IN IF i # 0 THEN {ExecDepFailed(node, d.s, d.results[i])}
            ELSE ExecAfterDeps(node, d.s)
         : d \in ExecDeps(node, get_incoming_edges(edges_, node), s1, <<>>)}

\* --------------------------------------------------- optimization passes
PassKinds == {"DeadNodeElimination", "NodeFusion"}

\* Graph::remove_node on the graph's fields
remove_node_outgoing_only(n, g) ==
    [g EXCEPT !.edges = {e \in @ : e.from # n},
              !.parent = [m \in DOMAIN @ |-> IF m = n THEN FALSE ELSE @[m]],
              !.nodes = @ \ {n},
              !.errors = MapErase(@, n)]

remove_node_keeps_error(n, g) ==
    [g EXCEPT !.edges = {e \in @ : e.from # n /\ e.to # n},
              !.parent = [m \in DOMAIN @ |-> IF m = n THEN FALSE ELSE @[m]],
              !.nodes = @ \ {n}]

remove_node(n, g) ==
    [g EXCEPT !.edges = {e \in @ : e.from # n /\ e.to # n},
              !.parent = [m \in DOMAIN @ |-> IF m = n THEN FALSE ELSE @[m]],
              !.nodes = @ \ {n},
              !.errors = MapErase(@, n)]

\* DeadNodeElimination::mark_reachable, from a set of nodes
RECURSIVE mark_reachable(_, _)
mark_reachable(S, E) ==
    LET S2 == S \cup {e.from : e \in {x \in E : x.to \in S}}
    IN IF S2 = S THEN S ELSE mark_reachable(S2, E)

\* DeadNodeElimination::find_reachable_nodes
find_reachable_nodes_all(g) == g.nodes

find_reachable_nodes(g) == mark_reachable(get_output_nodes(g.nodes, g.edges), g.edges)

\* DeadNodeElimination::remove_unreachable_nodes
RECURSIVE RemoveAll(_, _)
RemoveAll(S, g) ==
    IF S = {} THEN g
    ELSE LET n == CHOOSE x \in S : TRUE IN RemoveAll(S \ {n}, remove_node(n, g))

\* DeadNodeElimination::optimize
DeadNodeElimination(g) == RemoveAll(g.nodes \ find_reachable_nodes(g), g)

\* FusedNode: the node make_shared<FusedNode> creates for a chain; a pass
\* creates one per chain, and chains differ in their first node
FusedNode(chain) == "fused_" \o chain[1]

SeqRange(q) == {q[i] : i \in DOMAIN q}

\* the orders in which a loop over an unordered_set can visit its elements
Orders(S) == {q \in [1..Cardinality(S) -> S] : SeqRange(q) = S}

\* build_chain never returns when the walk comes back to a node of the chain
\* (it does not look at visited): the recursion ends in a stack overflow
Overflow == "stack overflow"

\* NodeFusion::build_chain
RECURSIVE build_chain(_, _, _)
build_chain(node, E, chain) ==
    LET c == Append(chain, node)
        outgoing == get_outgoing_edges(E, node)
    IN IF Cardinality(outgoing) = 1
       THEN LET next == (CHOOSE e \in outgoing : TRUE).to
            IN IF Cardinality(get_incoming_edges(E, next)) = 1
               THEN IF next \in SeqRange(c) THEN Append(c, Overflow)
                    ELSE build_chain(next, E, c)
               ELSE c
       ELSE c

\* NodeFusion::find_fusion_chains, visiting get_nodes() in the given order
RECURSIVE find_fusion_chains(_, _, _, _)
find_fusion_chains(order, E, seen, chains) ==
    IF order = <<>> THEN chains
    ELSE LET node == Head(order)
         IN IF node \in seen
            THEN find_fusion_chains(Tail(order), E, seen, chains)
            ELSE LET chain == build_chain(node, E, <<>>)
                 IN find_fusion_chains(Tail(order), E, seen \cup SeqRange(chain),
                                       Append(chains, chain))

\* the add_edge calls of one loop of fuse_chain, in any order of the edges;
\* the first add_edge that throws ends the pass
RECURSIVE add_edges(_, _)
add_edges(E, S) ==
    IF S = {} THEN {[edges |-> E, threw |-> FALSE]}
    ELSE UNION {IF has_cycle(e, E) THEN {[edges |-> E, threw |-> TRUE]}
                ELSE add_edges(E \cup {e}, S \ {e}) : e \in S}

\* NodeFusion::fuse_chain: the fused node gets edges, the chain's nodes are
\* removed; the fused node is not given to add_node
fuse_chain(g, chain) ==
    LET fused == FusedNode(chain)
        ins == {Edge(e.from, fused) : e \in get_incoming_edges(g.edges, chain[1])}
        outs == {Edge(fused, e.to) : e \in get_outgoing_edges(g.edges, chain[Len(chain)])}
    IN UNION {IF r1.threw THEN {[g |-> [g EXCEPT !.edges = r1.edges], threw |-> TRUE]}
              ELSE {IF r2.threw THEN [g |-> [g EXCEPT !.edges = r2.edges], threw |-> TRUE]
                    ELSE [g |-> RemoveAll(SeqRange(chain), [g EXCEPT !.edges = r2.edges]),
                          threw |-> FALSE]
                    : r2 \in add_edges(r1.edges, outs)}
              : r1 \in add_edges(g.edges, ins)}

\* NodeFusion::optimize, the loop over the chains
RECURSIVE fuse_chains(_, _, _)
fuse_chains(chains, i, g) ==
    IF i > Len(chains) THEN {[g |-> g, threw |-> FALSE]}
    ELSE IF Len(chains[i]) > 1
         THEN UNION {IF r.threw THEN {r} ELSE fuse_chains(chains, i + 1, r.g)
                     : r \in fuse_chain(g, chains[i])}
         ELSE fuse_chains(chains, i + 1, g)

\* NodeFusion::optimize: every outcome the iteration orders allow; an order
\* whose build_chain overflows the stack has no outcome
NodeFusion(g) ==
    UNION {LET chains == find_fusion_chains(order, g.edges, {}, <<>>)
           IN IF \E i \in DOMAIN chains : Overflow \in SeqRange(chains[i]) THEN {}
              ELSE fuse_chains(chains, 1, g)
           : order \in Orders(g.nodes)}

\* ------------------------------- precision propagation and compression
LevelPassKinds == {"PrecisionOptimization", "CompressionOptimization"}

\* std::clamp(v, lo, hi). With hi < lo its behaviour is undefined: the usual
\* implementations return one of the three arguments
Clamp(v, lo, hi) ==
    IF lo <= hi THEN {IF v < lo THEN lo ELSE IF hi < v THEN hi ELSE v}
    ELSE {v, lo, hi}

\* Node::adjust_precision on the pass's view of the nodes
adjust_precision(g, n, target_level) ==
    IF target_level >= g.min[n] /\ target_level <= g.max[n]
    THEN [g EXCEPT !.levels = [m \in DOMAIN @ |-> IF m = n THEN target_level ELSE @[m]]]
    ELSE g

\* Node::merge_updates on the pass's view of the nodes
merge_updates(g, n) ==
    [g EXCEPT !.storage = [m \in DOMAIN @ |-> IF m = n THEN merge_all(@[m]) ELSE @[m]]]

\* PrecisionOptimizationPass::error_threshold_, 0.001 in millionths
error_threshold_ == 1000

\* PrecisionOptimizationPass::analyze_error_history
analyze_error_history == error_threshold_ \div 2

\* PrecisionOptimizationPass::calculate_required_precision
calculate_required_precision_lower(target_precision, dependency, g) ==
    LET lower == IF target_precision > 0 THEN target_precision - 1 ELSE 0
    IN IF lower > g.min[dependency] THEN lower ELSE g.min[dependency]

calculate_required_precision(target_precision, dependency, g) ==
    LET recent_errors == analyze_error_history
    IN IF recent_errors > error_threshold_
       THEN IF target_precision + 1 < g.max[dependency]
            THEN target_precision + 1 ELSE g.max[dependency]
       ELSE IF recent_errors < error_threshold_ \div 2
            THEN LET lower == IF target_precision > 0 THEN target_precision - 1 ELSE 0
                 IN IF lower > g.min[dependency] THEN lower ELSE g.min[dependency]
            ELSE target_precision

\* PrecisionOptimizationPass::optimize, the loop over the incoming edges of
\* the node taken from the queue
RECURSIVE RequireDependencies(_, _, _, _, _)
RequireDependencies(deps, current_precision, req, queue, g) ==
    IF deps = {} THEN [req |-> req, queue |-> queue]
    ELSE LET dependency == CHOOSE x \in deps : TRUE
             required_precision == calculate_required_precision(current_precision, dependency, g)
         IN IF dependency \notin DOMAIN req \/ required_precision > req[dependency]
            THEN RequireDependencies(deps \ {dependency}, current_precision,
                                     MapPut(req, dependency, required_precision),
                                     Append(queue, dependency), g)
            ELSE RequireDependencies(deps \ {dependency}, current_precision, req, queue, g)

\* PrecisionOptimizationPass::optimize, the loop over node_queue.  (A
\* requirement only ever rises to the highest demand that reaches the node,
\* so the order of the queue does not show in the result.)
RECURSIVE PrecisionRequirements(_, _, _)
PrecisionRequirements(queue, req, g) ==
    IF queue = <<>> THEN req
    ELSE LET current_node == Head(queue)
             out == RequireDependencies({e.from : e \in get_incoming_edges(g.edges, current_node)},
                                        req[current_node], req, Tail(queue), g)
         IN PrecisionRequirements(out.queue, out.req, g)

\* PrecisionOptimizationPass::optimize, the loop that applies the levels
RECURSIVE ApplyPrecision(_, _, _)
ApplyPrecision(S, req, g) ==
    IF S = {} THEN {g}
    ELSE LET n == CHOOSE x \in S : TRUE
         IN UNION {ApplyPrecision(S \ {n}, req, adjust_precision(g, n, optimized_precision))
                   : optimized_precision \in Clamp(req[n], g.min[n], g.max[n])}

\* PrecisionOptimizationPass::optimize
PrecisionOptimizationPass(g) ==
    LET output_nodes == get_output_nodes(g.nodes, g.edges)
        queue == CHOOSE q \in Orders(output_nodes) : TRUE
        req == PrecisionRequirements(queue, [n \in output_nodes |-> g.levels[n]], g)
    IN ApplyPrecision(DOMAIN req, req, g)

\* CompressionOptimizationPass: memory_threshold_ and activity_threshold_ (the
\* defaults 0.8 and 0.2) and the usage_ratio optimize forces (0.9), in tenths
memory_threshold_ == 8

activity_threshold_ == 2

usage_ratio == 9

\* analyze_node_activity: the access rates a node can draw, in tenths (0.1
\* is the rate of a node made inactive, the other stands for dist(rng_))
ActivityRates == {1, 9}

\* access_rate < activity_threshold_ * average_access_rate
Inactive(rate, total, count) == rate * 10 * count < activity_threshold_ * total

RECURSIVE SumRates(_, _)
SumRates(rates, S) ==
    IF S = {} THEN 0
    ELSE LET n == CHOOSE x \in S : TRUE IN rates[n] + SumRates(rates, S \ {n})

\* the body of both compressions of compress_inactive_nodes
CompressNode(g, node) ==
    IF g.levels[node] > g.min[node]
    THEN [g |-> merge_updates(adjust_precision(g, node, g.levels[node] - 1), node), done |-> TRUE]
    ELSE [g |-> g, done |-> FALSE]

\* compress_inactive_nodes, the loop over access_rates in its iteration order
RECURSIVE CompressLoop(_, _, _, _, _)
CompressLoop(order, i, rates, compressed_any, g) ==
    IF i > Len(order) THEN [g |-> g, compressed_any |-> compressed_any]
    ELSE LET node == order[i]
             total == SumRates(rates, DOMAIN rates)
         IN IF ~compressed_any \/ Inactive(rates[node], total, Len(order))
            THEN LET c == CompressNode(g, node)
                 IN CompressLoop(order, i + 1, rates, compressed_any \/ c.done, c.g)
            ELSE CompressLoop(order, i + 1, rates, compressed_any, g)

\* CompressionOptimizationPass::compress_inactive_nodes; min_element returns
\* the first of the least rates in iteration order
compress_inactive_nodes(order, rates, g) ==
    LET out == CompressLoop(order, 1, rates, FALSE, g)
    IN IF out.compressed_any THEN out.g
       ELSE LET i == CHOOSE j \in DOMAIN order :
                        /\ \A k \in DOMAIN order : rates[order[j]] <= rates[order[k]]
                        /\ \A k \in 1..(j - 1) : rates[order[k]] > rates[order[j]]
            IN CompressNode(out.g, order[i]).g

\* CompressionOptimizationPass::expand_critical_path_nodes: optimize has set
\* usage_ratio to 0.9, which is not below memory_threshold_, so the function
\* returns at its first statement
expand_critical_path_nodes(g) ==
    IF usage_ratio >= memory_threshold_ THEN g ELSE g

\* CompressionOptimizationPass::find_path_endpoints
find_path_endpoints(E, start_node) ==
    {m \in ReachSet({start_node}, E) : get_outgoing_edges(E, m) = {}}

RECURSIVE SumLevels(_, _)
SumLevels(levels, S) ==
    IF S = {} THEN 0
    ELSE LET n == CHOOSE x \in S : TRUE IN levels[n] + SumLevels(levels, S \ {n})

RECURSIVE AdjustAll(_, _, _)
AdjustAll(S, target, g) ==
    IF S = {} THEN g
    ELSE LET n == CHOOSE x \in S : TRUE IN AdjustAll(S \ {n}, target, adjust_precision(g, n, target))

\* CompressionOptimizationPass::balance_group_precision
balance_group_precision(nodes, g) ==
    LET total_precision == SumLevels(g.levels, nodes)
        min_precision == CHOOSE x \in {g.min[n] : n \in nodes} : \A n \in nodes : g.min[n] <= x
        max_precision == CHOOSE x \in {g.max[n] : n \in nodes} : \A n \in nodes : g.max[n] >= x
    IN {AdjustAll(nodes, target_precision, g)
        : target_precision \in Clamp(total_precision \div Cardinality(nodes),
                                     min_precision, max_precision)}

\* balance_parallel_paths: parallel_groups of a node, from end node to the
\* successors that lead to it
parallel_groups(E, node) ==
    LET tos == {e.to : e \in get_outgoing_edges(E, node)}
        ends == UNION {find_path_endpoints(E, t) : t \in tos}
    IN [end_node \in ends |-> {t \in tos : end_node \in find_path_endpoints(E, t)}]

\* balance_parallel_paths, the loop over the groups of a node, in any order
RECURSIVE BalanceGroups(_, _, _)
BalanceGroups(ends, groups, g) ==
    IF ends = {} THEN {g}
    ELSE UNION {UNION {BalanceGroups(ends \ {end_node}, groups, g2)
                       : g2 \in balance_group_precision(groups[end_node], g)}
                : end_node \in ends}

\* CompressionOptimizationPass::balance_parallel_paths, the loop over the
\* nodes in its iteration order
RECURSIVE balance_parallel_paths(_, _, _)
balance_parallel_paths(order, i, g) ==
    IF i > Len(order) THEN {g}
    ELSE IF Cardinality(get_outgoing_edges(g.edges, order[i])) < 2
         THEN balance_parallel_paths(order, i + 1, g)
         ELSE LET groups == parallel_groups(g.edges, order[i])
              IN UNION {balance_parallel_paths(order, i + 1, g2)
                        : g2 \in BalanceGroups(DOMAIN groups, groups, g)}

\* CompressionOptimizationPass::optimize: every outcome of the activity
\* estimation and of the iteration orders
CompressionOptimizationPass(g) ==
    IF Cardinality(g.nodes) < 2 THEN {g}
    ELSE LET compressed == {expand_critical_path_nodes(compress_inactive_nodes(order, rates, g))
                            : order \in Orders(g.nodes), rates \in [g.nodes -> ActivityRates]}
         IN UNION {balance_parallel_paths(order, 1, g1)
                   : order \in Orders(g.nodes), g1 \in compressed}

\* OptimizationPass::optimize of the pass of a kind
ApplyPass(p, g) ==
    CASE p = "DeadNodeElimination" -> {[g |-> DeadNodeElimination(g), threw |-> FALSE]}
      [] p = "NodeFusion" -> NodeFusion(g)
      [] p = "PrecisionOptimization" ->
            {[g |-> g2, threw |-> FALSE] : g2 \in PrecisionOptimizationPass(g)}
      [] p = "CompressionOptimization" ->
            {[g |-> g2, threw |-> FALSE] : g2 \in CompressionOptimizationPass(g)}

\* Graph::optimize: the passes in the order of optimization_passes_; a pass
\* that throws ends the call. ran counts the passes that were started
RECURSIVE RunPasses(_, _, _)
RunPasses(passes, i, g) ==
    IF i > Len(passes) THEN {[g |-> g, threw |-> FALSE, ran |-> Len(passes)]}
    ELSE UNION {IF r.threw THEN {[g |-> r.g, threw |-> TRUE, ran |-> i]}
                ELSE RunPasses(passes, i + 1, r.g)
                : r \in ApplyPass(passes[i], g)}

GraphFields ==
    [nodes |-> nodes_, edges |-> edges_, errors |-> node_errors_, parent |-> parent_graph_,
     levels |-> current_precision_level_, storage |-> value_storage_,
     min |-> min_precision_level_, max |-> max_precision_level_]

\* ------------------------------------------------------------------ Task<T>
\* A consumer coroutine awaits the tasks 1..MaxTasks in turn (as the loop
\* "for (auto& task : tasks) co_await task" does); each task is a producer
\* coroutine that completes on a thread of its own (make_task_from_future
\* resumes it on a detached thread).
TaskIds == 1..MaxTasks

\* Task::SharedState, newly constructed
SharedState == [promise_fulfilled_ |-> FALSE, continuation_ |-> None]

InitTask ==
    /\ shared_state_ = [i \in TaskIds |-> SharedState]
    /\ producer = [i \in TaskIds |-> "running"]
    /\ consumer = [pc |-> "await_ready", task |-> 1, continued |-> [i \in TaskIds |-> 0]]

\* promise_type::return_value: result_ is set, then promise_fulfilled_
return_value(i) ==
    /\ producer[i] = "running"
    /\ shared_state_' = [shared_state_ EXCEPT ![i].promise_fulfilled_ = TRUE]
    /\ producer' = [producer EXCEPT ![i] = "final_suspend"]
    /\ UNCHANGED <<consumer, mainVars>>
    /\ UNCHANGED poolVars
    /\ UNCHANGED windowVars
    /\ UNCHANGED treeVars
    /\ UNCHANGED cacheVars
    /\ UNCHANGED lockVars

\* The values the plain read of continuation_ in final_awaiter::await_suspend
\* can yield: continuation_ is not atomic and nothing orders the consumer's
\* write before this read, so the read can also miss a write already made
ContinuationRead(st) == {st.continuation_, None}

\* final_awaiter::await_suspend: resumes the continuation it reads, if any.
\* The resumed consumer runs await_resume and what follows on this thread.
final_suspend(i) ==
    /\ producer[i] = "final_suspend"
    /\ producer' = [producer EXCEPT ![i] = "done"]
    /\ \E continuation \in ContinuationRead(shared_state_[i]) :
          IF continuation # None
          THEN consumer' = [consumer EXCEPT !.pc = "await_resume", !.continued[i] = @ + 1]
          ELSE UNCHANGED consumer
    /\ UNCHANGED <<shared_state_, mainVars>>
    /\ UNCHANGED poolVars
    /\ UNCHANGED windowVars
    /\ UNCHANGED treeVars
    /\ UNCHANGED cacheVars
    /\ UNCHANGED lockVars

\* awaiter::await_ready of the consumer's co_await: when the promise is
\* fulfilled the consumer continues without suspending
await_ready ==
    /\ consumer.pc = "await_ready"
    /\ consumer' = IF shared_state_[consumer.task].promise_fulfilled_
                   THEN [consumer EXCEPT !.pc = "await_resume", !.continued[consumer.task] = @ + 1]
                   ELSE [consumer EXCEPT !.pc = "await_suspend"]
    /\ UNCHANGED <<shared_state_, producer, mainVars>>
    /\ UNCHANGED poolVars
    /\ UNCHANGED windowVars
    /\ UNCHANGED treeVars
    /\ UNCHANGED cacheVars
    /\ UNCHANGED lockVars

\* awaiter::await_suspend: registers the consumer as continuation and leaves
\* it suspended
await_suspend ==
    /\ consumer.pc = "await_suspend"
    /\ shared_state_' = [shared_state_ EXCEPT ![consumer.task].continuation_ = "h"]
    /\ consumer' = [consumer EXCEPT !.pc = "suspended"]
    /\ UNCHANGED <<producer, mainVars>>
    /\ UNCHANGED poolVars
    /\ UNCHANGED windowVars
    /\ UNCHANGED treeVars
    /\ UNCHANGED cacheVars
    /\ UNCHANGED lockVars

\* awaiter::await_resume, and the consumer's step to its next co_await
await_resume ==
    /\ consumer.pc = "await_resume"
    /\ consumer' = IF consumer.task < MaxTasks
                   THEN [consumer EXCEPT !.pc = "await_ready", !.task = @ + 1]
                   ELSE [consumer EXCEPT !.pc = "finished"]
    /\ UNCHANGED <<shared_state_, producer, mainVars>>
    /\ UNCHANGED poolVars
    /\ UNCHANGED windowVars
    /\ UNCHANGED treeVars
    /\ UNCHANGED cacheVars
    /\ UNCHANGED lockVars

\* --------------------------------------------------------------- ThreadPool
\* ThreadPool::ThreadPool: the workers start in their loop, at the wait
InitPool ==
    /\ tasks_ = <<>>
    /\ stop_ = FALSE
    /\ workers_ = [w \in PoolWorkers |-> [pc |-> "wait", task |-> 0]]
    /\ pool_log = [calls |-> 0, accepted |-> {}, ran |-> [t \in 1..MaxSubmits |-> 0],
                   queued_at_stop |-> 0]

\* ThreadPool::enqueue: throws once stop_ is set, else queues the task
enqueue ==
    /\ pool_log.calls < MaxSubmits
    /\ LET t == pool_log.calls + 1
       IN IF stop_
          THEN /\ pool_log' = [pool_log EXCEPT !.calls = t]
               /\ UNCHANGED tasks_
          ELSE /\ pool_log' = [pool_log EXCEPT !.calls = t, !.accepted = @ \cup {t}]
               /\ tasks_' = Append(tasks_, t)
    /\ UNCHANGED <<stop_, workers_, taskVars, mainVars>>
    /\ UNCHANGED windowVars
    /\ UNCHANGED treeVars
    /\ UNCHANGED cacheVars
    /\ UNCHANGED lockVars

\* The worker loop's test for leaving the loop
WorkerExitsOnStop(stop, queue) == stop

WorkerExits(stop, queue) == stop /\ queue = <<>>

\* The worker loop from the wait to the end of the locked block: the wait
\* returns when stop_ is set or the queue is not empty; the worker returns,
\* or pops the front task
WorkerTake(w) ==
    /\ workers_[w].pc = "wait"
    /\ stop_ \/ tasks_ # <<>>
    /\ IF WorkerExits(stop_, tasks_)
       THEN /\ workers_' = [workers_ EXCEPT ![w].pc = "exited"]
            /\ UNCHANGED tasks_
       ELSE /\ workers_' = [workers_ EXCEPT ![w] = [pc |-> "run", task |-> Head(tasks_)]]
            /\ tasks_' = Tail(tasks_)
    /\ UNCHANGED <<stop_, pool_log, taskVars, mainVars>>
    /\ UNCHANGED windowVars
    /\ UNCHANGED treeVars
    /\ UNCHANGED cacheVars
    /\ UNCHANGED lockVars

\* The worker loop's call task(), back to the wait
WorkerRun(w) ==
    /\ workers_[w].pc = "run"
    /\ pool_log' = [pool_log EXCEPT !.ran[workers_[w].task] = @ + 1]
    /\ workers_' = [workers_ EXCEPT ![w] = [pc |-> "wait", task |-> 0]]
    /\ UNCHANGED <<tasks_, stop_, taskVars, mainVars>>
    /\ UNCHANGED windowVars
    /\ UNCHANGED treeVars
    /\ UNCHANGED cacheVars
    /\ UNCHANGED lockVars

\* ThreadPool::~ThreadPool up to notify_all (the joins return when the
\* workers have exited)
Shutdown ==
    /\ ~stop_
    /\ stop_' = TRUE
    /\ pool_log' = [pool_log EXCEPT !.queued_at_stop = Len(tasks_)]
    /\ UNCHANGED <<tasks_, workers_, taskVars, mainVars>>
    /\ UNCHANGED windowVars
    /\ UNCHANGED treeVars
    /\ UNCHANGED cacheVars
    /\ UNCHANGED lockVars

\* Node::Node: the precision window the constructor sets
InitWindow ==
    /\ min_precision_level_ = [n \in Names |-> 0]
    /\ max_precision_level_ = [n \in Names |-> max_precision_depth]
    /\ calls = 0

\* --------------------------------------------- a fractal store on its own
\* test_compression: FractalTreeNode<double> tree(4, 0.1), the values 1.0,
\* 1.01 and 1.5; levels up to 5, which is above the depth
TreeDepth == 4
TreeThreshold == Unit \div 10
TreeValues == {Unit, Unit + Unit \div 100, Unit + Unit \div 2}
TreeLevels == {0, 1, 2, 5}

TreeCall(op, value, level) == [op |-> op, value |-> value, level |-> level]

InitTree ==
    /\ tree = FractalTreeNode(TreeDepth, TreeThreshold)
    /\ tree_log = <<>>

\* FractalTreeNode::store, called by the user
Store(value, level) ==
    /\ Cardinality({i \in 1..Len(tree_log) : tree_log[i].op = "store"}) < MaxStores
    /\ tree' = store(tree, value, level)
    /\ tree_log' = Append(tree_log, TreeCall("store", value, level))
    /\ UNCHANGED <<mainVars, taskVars, poolVars, windowVars>>
    /\ UNCHANGED cacheVars
    /\ UNCHANGED lockVars

\* FractalTreeNode::merge_all, called by the user
MergeAll ==
    /\ merge_all(tree) # tree
    /\ tree' = merge_all(tree)
    /\ tree_log' = Append(tree_log, TreeCall("merge_all", 0, 0))
    /\ UNCHANGED <<mainVars, taskVars, poolVars, windowVars>>
    /\ UNCHANGED cacheVars
    /\ UNCHANGED lockVars

\* ------------------------------------------------- GraphCache with a policy
\* The policy objects of the tests: LRUCachePolicy<int>(2), LFUCachePolicy<int>(2),
\* and a FractalCachePolicy that allows no entry per level
capacity_ == 2
max_entries_per_level_ == 0
MAX_PRECISION_LEVELS == 32
CacheValues == 1..(capacity_ + 1)
PolicyKinds == {"LRU", "LFU", "Fractal"}

\* A node of LRUCachePolicy::access_list_; mapped: item_map_[value] points to it
ListNode(value, mapped) == [value |-> value, mapped |-> mapped]

\* The fields of the three policy classes, newly constructed
CachePolicy(kind) ==
    [kind |-> kind, access_list_ |-> <<>>, freq_map_ |-> EmptyMap,
     entries_at_level_ |-> EmptyMap, level_access_history_ |-> <<>>]

\* CachePolicy::max_size
max_size(p) ==
    IF p.kind = "Fractal" THEN max_entries_per_level_ * MAX_PRECISION_LEVELS ELSE capacity_

\* CachePolicy::should_cache
should_cache(p, value) ==
    CASE p.kind = "LRU" -> Len(p.access_list_) < capacity_
      [] p.kind = "LFU" -> Cardinality(DOMAIN p.freq_map_) < capacity_
      [] OTHER -> TRUE

\* FractalCachePolicy::estimate_value_precision
estimate_value_precision(value) == 4

\* operator[] of entries_at_level_
EntriesAt(entries, level) == IF level \in DOMAIN entries THEN entries[level] ELSE 0

\* std::list erase of the nodes that satisfy a test / of one value
RemoveMapped(list, value) ==
    LET Keep(node) == ~(node.value = value /\ node.mapped) IN SelectSeq(list, Keep)
RemoveLevel(list, level) ==
    LET Keep(l) == l # level IN SelectSeq(list, Keep)
Unmap(list, value) ==
    [i \in 1..Len(list) |-> IF list[i].value = value THEN ListNode(value, FALSE) ELSE list[i]]

\* CachePolicy::on_access
on_access_ignored(p, value) == p

on_access(p, value) ==
    CASE p.kind = "LRU" ->
            IF \E i \in 1..Len(p.access_list_) :
                    p.access_list_[i].value = value /\ p.access_list_[i].mapped
            THEN [p EXCEPT !.access_list_ = <<ListNode(value, TRUE)>> \o RemoveMapped(@, value)]
            ELSE p
      [] p.kind = "LFU" ->
            IF value \in DOMAIN p.freq_map_
            THEN [p EXCEPT !.freq_map_[value] = @ + 1]
            ELSE p
      [] OTHER ->
            LET level == estimate_value_precision(value)
            IN [p EXCEPT !.level_access_history_ = <<level>> \o RemoveLevel(@, level)]

\* FractalCachePolicy::compress_level
compress_level(entries, level) ==
    IF level = 0 THEN entries
    ELSE LET e1 == MapPut(entries, level, EntriesAt(entries, level) \div 2)
         IN MapPut(e1, level - 1, EntriesAt(e1, level - 1) + e1[level] \div 2)

\* CachePolicy::on_insert
on_insert(p, value) ==
    CASE p.kind = "LRU" ->
            [p EXCEPT !.access_list_ = <<ListNode(value, TRUE)>> \o Unmap(@, value)]
      [] p.kind = "LFU" ->
            [p EXCEPT !.freq_map_ = MapPut(@, value, 1)]
      [] OTHER ->
            LET level == estimate_value_precision(value)
                e0 == MapPut(p.entries_at_level_, level, EntriesAt(p.entries_at_level_, level))
                e1 == IF e0[level] >= max_entries_per_level_ THEN compress_level(e0, level) ELSE e0
            IN [p EXCEPT !.entries_at_level_ = MapPut(e1, level, e1[level] + 1)]

\* CachePolicy::select_victim: the possible outcomes (std::min_element over
\* the unordered freq_map_ yields any of the least frequent values)
select_victim(p) ==
    CASE p.kind = "LRU" ->
            IF p.access_list_ = <<>> THEN {[throws |-> TRUE, victim |-> 0, p |-> p]}
            ELSE LET victim == p.access_list_[Len(p.access_list_)].value
                 IN {[throws |-> FALSE, victim |-> victim,
                      p |-> [p EXCEPT !.access_list_ =
                                Unmap(SubSeq(@, 1, Len(@) - 1), victim)]]}
      [] p.kind = "LFU" ->
            IF DOMAIN p.freq_map_ = {} THEN {[throws |-> TRUE, victim |-> 0, p |-> p]}
            ELSE {[throws |-> FALSE, victim |-> v, p |-> [p EXCEPT !.freq_map_ = MapErase(@, v)]]
                  : v \in {x \in DOMAIN p.freq_map_ :
                                \A y \in DOMAIN p.freq_map_ : p.freq_map_[x] <= p.freq_map_[y]}}
      [] OTHER -> {[throws |-> FALSE, victim |-> 0, p |-> p]}

\* GraphCache::store: the possible outcomes
GraphCacheStore(p, cache, value) ==
    IF value \in cache
    THEN {[throws |-> FALSE, p |-> on_access(p, value), cache |-> cache]}
    ELSE IF should_cache(p, value)
    THEN {[throws |-> FALSE, p |-> on_insert(p, value), cache |-> cache \cup {value}]}
    ELSE {IF sv.throws
          THEN [throws |-> TRUE, p |-> p, cache |-> cache]
          ELSE [throws |-> FALSE, p |-> on_insert(sv.p, value),
                cache |-> (cache \ {sv.victim}) \cup {value}]
          : sv \in select_victim(p)}

\* The record of a call on the cache, with the cache and the times of last
\* use before it
CacheCall(op, value, threw) ==
    [op |-> op, value |-> value, threw |-> threw, pre_cache |-> gcache_, pre_use |-> cache_log.use]

InitCache ==
    /\ policy_ = CachePolicy("LRU")
    /\ gcache_ = {}
    /\ cache_log = [ops |-> 0, use |-> [v \in CacheValues |-> 0],
                    last |-> [op |-> "none", value |-> 0, threw |-> FALSE,
                              pre_cache |-> {}, pre_use |-> [v \in CacheValues |-> 0]]]

\* GraphCache::GraphCache(policy), replacing the cache
NewCache(kind) ==
    /\ cache_log.ops = 0
    /\ policy_.kind # kind
    /\ policy_' = CachePolicy(kind)
    /\ UNCHANGED <<gcache_, cache_log, mainVars, taskVars, poolVars, windowVars, treeVars>>
    /\ UNCHANGED lockVars

\* GraphCache::store
CacheStore(value) ==
    /\ cache_log.ops < MaxCacheOps
    /\ \E out \in GraphCacheStore(policy_, gcache_, value) :
          /\ policy_' = out.p
          /\ gcache_' = out.cache
          /\ cache_log' = [ops |-> cache_log.ops + 1,
                           use |-> IF out.throws THEN cache_log.use
                                   ELSE [cache_log.use EXCEPT ![value] = cache_log.ops + 1],
                           last |-> CacheCall("store", value, out.throws)]
    /\ UNCHANGED <<mainVars, taskVars, poolVars, windowVars, treeVars>>
    /\ UNCHANGED lockVars

\* GraphCache::get
CacheGet(key) ==
    /\ cache_log.ops < MaxCacheOps
    /\ policy_' = IF key \in gcache_ THEN on_access(policy_, key) ELSE policy_
    /\ cache_log' = [ops |-> cache_log.ops + 1,
                     use |-> IF key \in gcache_
                             THEN [cache_log.use EXCEPT ![key] = cache_log.ops + 1]
                             ELSE cache_log.use,
                     last |-> CacheCall("get", key, FALSE)]
    /\ UNCHANGED <<gcache_, mainVars, taskVars, poolVars, windowVars, treeVars>>
    /\ UNCHANGED lockVars

\* GraphCache::clear
CacheClear ==
    /\ cache_log.ops < MaxCacheOps
    /\ gcache_ # {}
    /\ gcache_' = {}
    /\ cache_log' = [ops |-> cache_log.ops + 1, use |-> cache_log.use,
                     last |-> CacheCall("clear", 0, FALSE)]
    /\ UNCHANGED <<policy_, mainVars, taskVars, poolVars, windowVars, treeVars>>
    /\ UNCHANGED lockVars

\* ------------------------------------------- Node::mutex_ and error_mutex_
\* Threads calling into one graph.  A call is the sequence of lock and unlock
\* operations it performs on the nodes' mutexes and on the graph's
\* error_mutex_; a mutex is named by its node, or ErrorMutex.
LockThreads == {"t1", "t2"}
LockNodes == {"a", "b"}
ErrorMutex == "error_mutex_"

lock(m) == [call |-> "lock", m |-> m]
unlock(m) == [call |-> "unlock", m |-> m]

\* std::lock_guard<std::mutex> lock(m) and the scope it lives in
lock_guard(m, scope) == <<lock(m)>> \o scope \o <<unlock(m)>>

\* Graph::get_node_error
get_node_error_locks == lock_guard(ErrorMutex, <<>>)

\* Node::compute: mutex_ is held to the end; get_node_error is called when
\* parent_graph_ is set (remove_node clears parent_graph_ without the node's
\* mutex, so a concurrent compute can read either value).  The callbacks run
\* for a result without error only, and the graph's callback locks
\* error_mutex_ for a result with an error only.
compute_locks(n) == {lock_guard(n, get_node_error_locks), lock_guard(n, <<>>)}

\* Graph::remove_node
remove_node_locks_nested(n) == {lock_guard(ErrorMutex, lock_guard(n, <<>>))}

remove_node_locks(n) == {lock_guard(ErrorMutex, <<>>)}

\* Graph::execute_node_async for a node without predecessors: the block that
\* looks for an existing error, then (table empty) compute and, after a
\* failed compute, the block that stores the error
execute_node_async_locks(n) ==
    {lock_guard(ErrorMutex, <<>>)}
    \cup {lock_guard(ErrorMutex, <<>>) \o c \o stored :
            c \in compute_locks(n), stored \in {<<>>, lock_guard(ErrorMutex, <<>>)}}

\* Graph::execute with the source node n: the table is cleared, the node is
\* scheduled, the await loop stores a failed task's error, the propagation
\* loop calls get_node_error and, for an error, writes under the lock
execute_locks(n) ==
    {lock_guard(ErrorMutex, <<>>) \o scheduled \o awaited_ \o propagated :
        scheduled \in execute_node_async_locks(n),
        awaited_ \in {<<>>, lock_guard(ErrorMutex, <<>>)},
        propagated \in {<<>>, get_node_error_locks,
                        get_node_error_locks \o lock_guard(ErrorMutex, <<>>)}}

LockCalls == {"compute", "execute", "get_node_error", "remove_node"}

Locks(op, n) ==
    CASE op = "compute" -> compute_locks(n)
      [] op = "execute" -> execute_locks(n)
      [] op = "get_node_error" -> {get_node_error_locks}
      [] op = "remove_node" -> remove_node_locks(n)

NoCall == [op |-> "none", node |-> None, rest |-> <<>>]

InitLock ==
    /\ mutex_ = [n \in LockNodes |-> None]
    /\ error_mutex_ = None
    /\ threads = [t \in LockThreads |-> NoCall]

Owner(m) == IF m = ErrorMutex THEN error_mutex_ ELSE mutex_[m]

\* A thread calls op on node n
ThreadCall(t, op, n) ==
    /\ threads[t] = NoCall
    /\ \E q \in Locks(op, n) : threads' = [threads EXCEPT ![t] = [op |-> op, node |-> n, rest |-> q]]
    /\ UNCHANGED <<mutex_, error_mutex_>>
    /\ UNCHANGED <<mainVars, taskVars, poolVars, windowVars, treeVars, cacheVars>>

\* The state of mutex m after std::mutex::lock / unlock by thread t
SetOwner(m, owner) ==
    /\ error_mutex_' = IF m = ErrorMutex THEN owner ELSE error_mutex_
    /\ mutex_' = IF m = ErrorMutex THEN mutex_ ELSE [mutex_ EXCEPT ![m] = owner]

\* A thread's next lock (it blocks while the mutex is held) or unlock; the
\* call returns after its last operation
ThreadStep(t) ==
    /\ threads[t] # NoCall
    /\ LET i == Head(threads[t].rest)
       IN IF i.call = "lock"
          THEN Owner(i.m) = None /\ SetOwner(i.m, t)
          ELSE SetOwner(i.m, None)
    /\ threads' = [threads EXCEPT ![t] = IF Len(@.rest) = 1 THEN NoCall
                                         ELSE [@ EXCEPT !.rest = Tail(@)]]
    /\ UNCHANGED <<mainVars, taskVars, poolVars, windowVars, treeVars, cacheVars>>

InitSideButWindow == InitTask /\ InitPool /\ InitTree /\ InitCache /\ InitLock

InitSide == InitSideButWindow /\ InitWindow

\* ------------------------------------------------------------------ states
NoOp == [op |-> "none", edge |-> Edge("", ""), rejected |-> FALSE, pre |-> {}]

InitCommonButLevels ==
    /\ node_errors_ = EmptyMap
    /\ optimization_passes_ = <<>>
    /\ cache_ = {}
    /\ value_storage_ = [n \in Names |-> FractalTreeNode(max_precision_depth, compression_threshold)]
    /\ computation_count_ = [n \in Names |-> 0]
    /\ pc = "idle"
    /\ todo = {}
    /\ tasks = <<>>
    /\ awaited = 0
    /\ visited = {}
    /\ ptodo = {}
    /\ changed = FALSE
    /\ runs = 0
    /\ lastOp = NoOp
    /\ trace = EmptyTrace
    /\ InitSideButWindow

InitCommon ==
    /\ InitCommonButLevels
    /\ current_precision_level_ = [n \in Names |-> 0]
    /\ InitWindow

\* A newly constructed Graph and nodes that belong to no graph yet
Init ==
    /\ InitCommon
    /\ nodes_ = {}
    /\ edges_ = {}
    /\ parent_graph_ = [n \in Names |-> FALSE]
    /\ completion_callbacks_ = [n \in Names |-> <<>>]
    /\ error_type_ = [n \in Names |-> "None"]

Quiescent == pc \in {"idle", "done"}

\* ------------------------------------------------------------ graph editing
\* Graph::add_node
AddNode(n) ==
    /\ Quiescent
    /\ Len(completion_callbacks_[n]) < MaxCallbacks
    /\ nodes_' = nodes_ \cup {n}
    /\ parent_graph_' = [parent_graph_ EXCEPT ![n] = TRUE]
    /\ completion_callbacks_' = [completion_callbacks_ EXCEPT ![n] = Append(@, "graph")]
    /\ pc' = "idle"
    /\ lastOp' = NoOp
    /\ UNCHANGED <<edges_, node_errors_, optimization_passes_, cache_, value_storage_,
                   computation_count_, current_precision_level_, error_type_,
                   todo, tasks, awaited, visited, ptodo, changed, runs, trace>>
    /\ UNCHANGED sideVars

\* Graph::remove_node
RemoveNode(n) ==
    /\ Quiescent
    /\ LET g == remove_node(n, GraphFields)
       IN /\ nodes_' = g.nodes
          /\ edges_' = g.edges
          /\ node_errors_' = g.errors
          /\ parent_graph_' = g.parent
    /\ pc' = "idle"
    /\ lastOp' = [op |-> "remove_node", node |-> n]
    /\ UNCHANGED <<optimization_passes_, cache_, completion_callbacks_, value_storage_,
                   computation_count_, current_precision_level_, error_type_,
                   todo, tasks, awaited, visited, ptodo, changed, runs, trace>>
    /\ UNCHANGED sideVars

\* Graph::add_edge, the edge set after the call
EdgesAfterAddAlways(e, E) == E \cup {e}

EdgesAfterAdd(e, E) == IF ~has_cycle(e, E) THEN E \cup {e} ELSE E

\* Graph::add_edge; a rejected edge is the thrown runtime_error
AddEdge(e) ==
    /\ Quiescent
    /\ edges_' = EdgesAfterAdd(e, edges_)
    /\ lastOp' = [op |-> "add_edge", edge |-> e, rejected |-> has_cycle(e, edges_), pre |-> edges_]
    /\ pc' = "idle"
    /\ UNCHANGED <<nodes_, node_errors_, optimization_passes_, cache_, nodeVars,
                   todo, tasks, awaited, visited, ptodo, changed, runs, trace>>
    /\ UNCHANGED sideVars

\* Graph::add_optimization_pass
AddOptimizationPass(p) ==
    /\ Quiescent
    /\ Len(optimization_passes_) < MaxPasses
    /\ optimization_passes_' = Append(optimization_passes_, p)
    /\ pc' = "idle"
    /\ lastOp' = NoOp
    /\ UNCHANGED <<nodes_, edges_, node_errors_, cache_, nodeVars,
                   todo, tasks, awaited, visited, ptodo, changed, runs, trace>>
    /\ UNCHANGED sideVars

\* Graph::optimize, called by the user
Optimize ==
    /\ Quiescent
    /\ optimization_passes_ # <<>>
    /\ Len(trace.passes) + Len(optimization_passes_) <= MaxPasses
    /\ \E r \in RunPasses(optimization_passes_, 1, GraphFields) :
          /\ nodes_' = r.g.nodes
          /\ edges_' = r.g.edges
          /\ node_errors_' = r.g.errors
          /\ parent_graph_' = r.g.parent
          /\ current_precision_level_' = r.g.levels
          /\ value_storage_' = r.g.storage
          /\ trace' = [trace EXCEPT !.passes = @ \o SubSeq(optimization_passes_, 1, r.ran)]
    /\ pc' = "idle"
    /\ lastOp' = [op |-> "optimize", nodes |-> nodes_, edges |-> edges_,
                  levels |-> current_precision_level_]
    /\ UNCHANGED <<optimization_passes_, cache_, completion_callbacks_,
                   computation_count_, error_type_,
                   todo, tasks, awaited, visited, ptodo, changed, runs>>
    /\ UNCHANGED sideVars

\* ------------------------------------------------------------ node set-up
\* ErrorTestNode::set_error_type
SetErrorType(n, t) ==
    /\ Quiescent
    /\ error_type_[n] # t
    /\ error_type_' = [error_type_ EXCEPT ![n] = t]
    /\ pc' = "idle"
    /\ lastOp' = NoOp
    /\ UNCHANGED <<graphVars, parent_graph_, completion_callbacks_, value_storage_,
                   computation_count_, current_precision_level_,
                   todo, tasks, awaited, visited, ptodo, changed, runs, trace>>
    /\ UNCHANGED sideVars

\* Node::merge_updates
MergeUpdates(n) ==
    /\ Quiescent
    /\ value_storage_[n] # merge_all(value_storage_[n])
    /\ value_storage_' = [value_storage_ EXCEPT ![n] = merge_all(@)]
    /\ pc' = "idle"
    /\ lastOp' = NoOp
    /\ UNCHANGED <<graphVars, parent_graph_, completion_callbacks_, error_type_,
                   computation_count_, current_precision_level_,
                   todo, tasks, awaited, visited, ptodo, changed, runs, trace>>
    /\ UNCHANGED sideVars

\* ------------------------------------------------- direct calls on a node
\* The levels the user passes to compute, adjust_precision and
\* set_precision_range: they lie inside, below or above the windows [0, 0],
\* [0, 2] and [2, 2], and 9 lies above the store's depth
LevelArgs == {0, 2, 9}

\* Node::compute(precision_level), called by the user
Compute(n, precision_level) ==
    /\ Quiescent
    /\ calls < MaxComputes
    /\ calls' = calls + 1
    /\ LET out == NodeCompute(n, precision_level, Work)
       IN /\ node_errors_' = out.s.errors
          /\ value_storage_' = out.s.storage
          /\ computation_count_' = out.s.count
          /\ current_precision_level_' = out.s.level
          /\ trace' = out.s.trace
          /\ lastOp' = [op |-> "compute", node |-> n, level |-> precision_level,
                        result |-> out.result,
                        pre |-> [level |-> current_precision_level_[n],
                                 storage |-> value_storage_[n],
                                 impl |-> Len(trace.impl),
                                 entry |-> parent_graph_[n] /\ n \in DOMAIN node_errors_]]
    /\ UNCHANGED <<nodes_, edges_, optimization_passes_, cache_, parent_graph_,
                   completion_callbacks_, error_type_, execVars,
                   min_precision_level_, max_precision_level_, taskVars, poolVars, treeVars,
                   cacheVars>>
    /\ UNCHANGED lockVars

\* Node::adjust_precision
AdjustPrecision(n, target_level) ==
    /\ Quiescent
    /\ current_precision_level_' =
          IF target_level >= min_precision_level_[n] /\ target_level <= max_precision_level_[n]
          THEN [current_precision_level_ EXCEPT ![n] = target_level]
          ELSE current_precision_level_
    /\ lastOp' = [op |-> "adjust_precision", node |-> n, level |-> target_level,
                  pre |-> [level |-> current_precision_level_[n]]]
    /\ UNCHANGED <<graphVars, parent_graph_, completion_callbacks_, value_storage_,
                   computation_count_, error_type_, execVars, trace, sideVars>>

\* The arguments Node::set_precision_range accepts
RangeAcceptedUnchecked(fs, min_level, max_level) == TRUE

RangeAccepted(fs, min_level, max_level) ==
    ~(max_level > fs.max_depth_) /\ ~(min_level > max_level)

\* Node::set_precision_range; a refused range is the thrown invalid_argument
SetPrecisionRange(n, min_level, max_level) ==
    /\ Quiescent
    /\ IF RangeAccepted(value_storage_[n], min_level, max_level)
       THEN /\ min_precision_level_' = [min_precision_level_ EXCEPT ![n] = min_level]
            /\ max_precision_level_' = [max_precision_level_ EXCEPT ![n] = max_level]
       ELSE UNCHANGED <<min_precision_level_, max_precision_level_>>
    /\ lastOp' = [op |-> "set_precision_range", node |-> n, min |-> min_level, max |-> max_level,
                  pre |-> [min |-> min_precision_level_[n], max |-> max_precision_level_[n],
                           level |-> current_precision_level_[n]]]
    /\ UNCHANGED <<mainVarsButLastOp, calls, taskVars, poolVars, treeVars, cacheVars>>
    /\ UNCHANGED lockVars

\* ----------------------------------------------------------- Graph::execute
\* The error table a call of execute starts from
ClearErrorsKept(errors) == errors

ClearErrors(errors) == EmptyMap

\* The nodes the scheduling loop hands to execute_node_async
SourceNodes(N, E) == {n \in N : get_incoming_edges(E, n) = {}}

\* execute up to the scheduling loop: the error table is cleared, tasks and
\* visited are empty.  (This execute does not call optimize.)
ExecuteStart(max_runs) ==
    /\ Quiescent
    /\ runs < max_runs
    /\ runs' = runs + 1
    /\ node_errors_' = ClearErrors(node_errors_)
    /\ tasks' = <<>>
    /\ awaited' = 0
    /\ visited' = {}
    /\ todo' = SourceNodes(nodes_, edges_)
    /\ ptodo' = nodes_
    /\ changed' = FALSE
    /\ pc' = IF SourceNodes(nodes_, edges_) = {} THEN "propagate" ELSE "schedule"
    /\ trace' = [EmptyTrace EXCEPT !.before = DOMAIN node_errors_]
    /\ lastOp' = NoOp
    /\ UNCHANGED <<nodes_, edges_, optimization_passes_, cache_, nodeVars>>
    /\ UNCHANGED sideVars

\* One iteration of the scheduling loop that reaches a node without incoming
\* edges: execute_node_async runs (eagerly, to completion) and its task is
\* appended to tasks.  Iterations over the other nodes do nothing.
ScheduleNode(n) ==
    /\ pc = "schedule"
    /\ n \in todo
    /\ \E out \in execute_node_async(n, Work) :
          /\ node_errors_' = out.s.errors
          /\ value_storage_' = out.s.storage
          /\ computation_count_' = out.s.count
          /\ current_precision_level_' = out.s.level
          /\ cache_' = out.s.cache
          /\ visited' = out.s.visited
          /\ trace' = out.s.trace
          /\ tasks' = Append(tasks, [node |-> n, result |-> out.result])
    /\ todo' = todo \ {n}
    /\ pc' = IF todo' = {} THEN "await" ELSE "schedule"
    /\ UNCHANGED <<nodes_, edges_, optimization_passes_, parent_graph_, completion_callbacks_,
                   error_type_, awaited, ptodo, changed, runs, lastOp>>
    /\ UNCHANGED sideVars

\* The table write of the await loop for one failed task
AwaitWrite(errors, node, result) ==
    LET error == IF result.error.source = None
                 THEN set_source_node(result.error, node)
                 ELSE result.error
    IN MapPut(errors, error.source, error)

\* One iteration of the loop awaiting the tasks
AwaitTask ==
    /\ pc = "await"
    /\ LET t == tasks[awaited + 1]
       IN node_errors_' = IF t.result.has_error
                          THEN AwaitWrite(node_errors_, t.node, t.result)
                          ELSE node_errors_
    /\ awaited' = awaited + 1
    /\ pc' = IF awaited' = Len(tasks) THEN "propagate" ELSE "await"
    /\ UNCHANGED <<nodes_, edges_, optimization_passes_, cache_, nodeVars,
                   todo, tasks, visited, ptodo, changed, runs, lastOp, trace>>
    /\ UNCHANGED sideVars

\* The predecessors whose error the propagation loop can copy to node: with
\* the unspecified order of the incoming edges, any predecessor that has an
\* entry can be the first one the loop meets
PropagationCandidatesOverwriting(errors, E, node) ==
    {e.from : e \in {x \in get_incoming_edges(E, node) : get_node_error(errors, x.from).has_value}}

PropagationCandidatesOwnFailure(errors, E, node) ==
    IF node \in DOMAIN errors THEN {}
    ELSE {e.from : e \in {x \in get_incoming_edges(E, node) :
                              /\ get_node_error(errors, x.from).has_value
                              /\ errors[x.from].source = x.from}}

PropagationCandidates(errors, E, node) ==
    IF node \in DOMAIN errors THEN {}
    ELSE {e.from : e \in {x \in get_incoming_edges(E, node) : get_node_error(errors, x.from).has_value}}

\* The entry the propagation loop records for node, copied from from_node
PropagatedErrorUnmarked(errors, from_node, node) == errors[from_node]

PropagatedError(errors, from_node, node) == add_propagation_path(errors[from_node], node)

\* The propagation loop's body for one node of the current pass
PropagateNode(n) ==
    /\ pc = "propagate"
    /\ n \in ptodo
    /\ ptodo' = ptodo \ {n}
    /\ IF PropagationCandidates(node_errors_, edges_, n) = {}
       THEN UNCHANGED <<node_errors_, changed>>
       ELSE /\ \E p \in PropagationCandidates(node_errors_, edges_, n) :
                 node_errors_' = MapPut(node_errors_, n, PropagatedError(node_errors_, p, n))
            /\ changed' = TRUE
    /\ UNCHANGED <<nodes_, edges_, optimization_passes_, cache_, nodeVars,
                   pc, todo, tasks, awaited, visited, runs, lastOp, trace>>
    /\ UNCHANGED sideVars

\* The end of a propagation pass: another pass while (changed), else co_return
PropagateEnd ==
    /\ pc = "propagate"
    /\ ptodo = {}
    /\ IF changed
       THEN /\ ptodo' = nodes_
            /\ changed' = FALSE
            /\ pc' = "propagate"
       ELSE /\ pc' = "done"
            /\ UNCHANGED <<ptodo, changed>>
    /\ trace' = [trace EXCEPT !.rounds = IF changed THEN @ + 1 ELSE @]
    /\ UNCHANGED <<graphVars, nodeVars, todo, tasks, awaited, visited, runs, lastOp>>
    /\ UNCHANGED sideVars

\* ---------------------------------------------------------- specifications
\* Graph editing, from the empty graph
NextGraph ==
    \/ \E n \in GraphNames : AddNode(n)
    \/ \E n \in GraphNames : RemoveNode(n)
    \/ \E f \in GraphNames, t \in GraphNames : AddEdge(Edge(f, t))

SpecGraph == Init /\ [][NextGraph]_vars

\* The graphs the executor runs start from: the four nodes added (add_node)
\* with one user callback each, any subset of the diamond's edges inserted
\* (add_edge), any compute_impl behaviour per node
Diamond == {Edge("a", "b"), Edge("a", "c"), Edge("b", "d"), Edge("c", "d")}

InitNodes(N, types) ==
    /\ InitCommon
    /\ nodes_ = N
    /\ parent_graph_ = [n \in Names |-> n \in N]
    /\ completion_callbacks_ = [n \in Names |-> IF n \in N THEN <<"graph", "user">> ELSE <<>>]
    /\ error_type_ \in {f \in [Names -> types] :
                            /\ \A n \in Names \ N : f[n] = "None"
                            /\ Cardinality({n \in N : f[n] # "None"}) <= MaxFailing}

InitExec == InitNodes(Names, ReturningTypes) /\ edges_ \in SUBSET Diamond

ExecuteSteps ==
    \/ \E n \in Names : ScheduleNode(n)
    \/ AwaitTask
    \/ \E n \in Names : PropagateNode(n)
    \/ PropagateEnd

NextExec ==
    \/ ExecuteStart(MaxRuns)
    \/ ExecuteSteps

SpecExec == InitExec /\ [][NextExec]_vars

\* Executor runs on a graph with registered optimization passes
Triangle == {Edge("a", "b"), Edge("b", "c"), Edge("a", "c")}

InitPasses == InitNodes(GraphNames, {"None", "PrecisionError"}) /\ edges_ \in SUBSET Triangle

NextPasses ==
    \/ \E p \in PassKinds : AddOptimizationPass(p)
    \/ Optimize
    \/ ExecuteStart(MaxRuns)
    \/ ExecuteSteps

SpecPasses == InitPasses /\ [][NextPasses]_vars

\* Executor runs with recovery: between two calls of execute the user can
\* repair a node (set_error_type(None)) and merge a node's pending updates
InitRerun == InitNodes(GraphNames, ErrorTypes) /\ edges_ \in SUBSET Triangle

NextRerun ==
    \/ ExecuteStart(MaxReruns)
    \/ ExecuteSteps
    \/ \E n \in Names : SetErrorType(n, "None")
    \/ \E n \in Names : MergeUpdates(n)

SpecRerun == InitRerun /\ [][NextRerun]_vars

\* One node in a graph: the user executes the graph and calls the node's
\* compute, adjust_precision, set_precision_range and merge_updates directly
NodeUnderTest == {"a"}

InitNode == InitNodes(NodeUnderTest, {"None", "Unsourced"}) /\ edges_ = {}

NextNode ==
    \/ \E n \in NodeUnderTest, l \in LevelArgs : Compute(n, l)
    \/ \E n \in NodeUnderTest, l \in LevelArgs : AdjustPrecision(n, l)
    \/ \E n \in NodeUnderTest, mn \in LevelArgs, mx \in LevelArgs : SetPrecisionRange(n, mn, mx)
    \/ \E n \in NodeUnderTest : MergeUpdates(n)
    \/ ExecuteStart(MaxRuns)
    \/ ExecuteSteps

SpecNode == InitNode /\ [][NextNode]_vars

\* The optimization passes on the graphs of four nodes whose edges go
\* forward in a, b, c, d
Forward ==
    {Edge("a", "b"), Edge("a", "c"), Edge("a", "d"),
     Edge("b", "c"), Edge("b", "d"), Edge("c", "d")}

InitFusion == InitNodes(Names, {"None"}) /\ edges_ \in SUBSET Forward

NextFusion ==
    \/ \E p \in PassKinds : AddOptimizationPass(p)
    \/ Optimize

SpecFusion == InitFusion /\ [][NextFusion]_vars

\* The precision and compression passes on three nodes whose windows were
\* set with set_precision_range and whose levels with adjust_precision, in
\* either order: the windows [0, 8] (of the constructor), [0, 0] and [2, 2],
\* the levels 0 and 2
PassWindows == {<<0, max_precision_depth>>, <<0, 0>>, <<2, 2>>}

PassLevels == {0, 2}

InitPrecision ==
    /\ InitCommonButLevels
    /\ nodes_ = GraphNames
    /\ edges_ \in SUBSET Triangle
    /\ parent_graph_ = [n \in Names |-> n \in GraphNames]
    /\ completion_callbacks_ = [n \in Names |-> IF n \in GraphNames THEN <<"graph", "user">> ELSE <<>>]
    /\ error_type_ = [n \in Names |-> "None"]
    /\ calls = 0
    /\ \E w \in [GraphNames -> PassWindows], l \in [GraphNames -> PassLevels] :
          /\ min_precision_level_ = [n \in Names |-> IF n \in GraphNames THEN w[n][1] ELSE 0]
          /\ max_precision_level_ =
                [n \in Names |-> IF n \in GraphNames THEN w[n][2] ELSE max_precision_depth]
          /\ current_precision_level_ = [n \in Names |-> IF n \in GraphNames THEN l[n] ELSE 0]

NextPrecision ==
    \/ \E p \in LevelPassKinds : AddOptimizationPass(p)
    \/ Optimize

SpecPrecision == InitPrecision /\ [][NextPrecision]_vars

\* Graph editing and execute, from the empty graph, on two nodes of which
\* none, one or both fail (reporting themselves as source)
EditNames == {"a", "b"}

InitEdit ==
    /\ InitCommon
    /\ nodes_ = {}
    /\ edges_ = {}
    /\ parent_graph_ = [n \in Names |-> FALSE]
    /\ completion_callbacks_ = [n \in Names |-> <<>>]
    /\ error_type_ \in {f \in [Names -> {"None", "PrecisionError"}] :
                            /\ \A n \in Names \ EditNames : f[n] = "None"
                            /\ f["a"] = "None" \/ f["b"] # "None"}

NextEdit ==
    \/ \E n \in EditNames : AddNode(n)
    \/ \E n \in EditNames : RemoveNode(n)
    \/ \E f \in EditNames, t \in EditNames : AddEdge(Edge(f, t))
    \/ ExecuteStart(MaxRuns)
    \/ ExecuteSteps

SpecEdit == InitEdit /\ [][NextEdit]_vars

\* execute on the graphs add_edge builds from the triangle, the edge back
\* from c to a and a self-loop: graphs with cycles and graphs without a source
\* node are among them.  execute runs its loops on the calling thread, one
\* step after the other, until it returns: the steps of a started execute
\* are taken (weak fairness).
CycleEdges == Triangle \cup {Edge("c", "a"), Edge("b", "b")}

InitCycle == InitNodes(GraphNames, {"None", "PrecisionError"}) /\ edges_ = {}

NextCycle ==
    \/ \E e \in CycleEdges : AddEdge(e)
    \/ ExecuteStart(MaxRuns)
    \/ ExecuteSteps

SpecCycle == InitCycle /\ [][NextCycle]_vars /\ WF_vars(ExecuteSteps)

\* Two threads calling compute, execute, get_node_error and remove_node on
\* a graph of two nodes, in any interleaving of their lock operations
NextLock ==
    \/ \E t \in LockThreads, op \in LockCalls, n \in LockNodes : ThreadCall(t, op, n)
    \/ \E t \in LockThreads : ThreadStep(t)

SpecLock == InitNodes(LockNodes, {"None"}) /\ edges_ = {} /\ [][NextLock]_vars

\* Graph editing and DeadNodeElimination, from the empty graph
NextPrune ==
    \/ \E n \in EditNames : AddNode(n)
    \/ \E n \in EditNames : RemoveNode(n)
    \/ \E f \in EditNames, t \in EditNames : AddEdge(Edge(f, t))
    \/ AddOptimizationPass("DeadNodeElimination")
    \/ Optimize

SpecPrune == Init /\ [][NextPrune]_vars

\* ------------------------------------------------------------ serialization
\* serialize_graph: the JSON documents to_json can return.  "nodes" lists the
\* names in the iteration order of get_nodes(), "edges" the outgoing edges of
\* these nodes, node by node in the same order
serialize_graph(N, E) ==
    LET out == {e \in E : e.from \in N}
        Pos(q, n) == CHOOSE i \in DOMAIN q : q[i] = n
    IN UNION {{[nodes |-> q, edges |-> r] :
                 r \in {x \in Orders(out) :
                           \A i \in DOMAIN x, k \in DOMAIN x :
                               i < k => Pos(q, x[i].from) <= Pos(q, x[k].from)}}
              : q \in Orders(N)}

\* Graph::find_node_by_name on the nodes made so far
find_node_by_name(N, name) == IF name \in N THEN Some(name) ELSE Nullopt

\* Graph::from_json, the loop over j["edges"]: an edge whose end points are
\* not both found is dropped, an add_edge that throws ends from_json
RECURSIVE DeserializeEdges(_, _, _, _)
DeserializeEdges(edges, i, N, E) ==
    IF i > Len(edges) THEN [nodes |-> N, edges |-> E, threw |-> FALSE]
    ELSE LET from_node == find_node_by_name(N, edges[i].from)
             to_node == find_node_by_name(N, edges[i].to)
         IN IF from_node.has_value /\ to_node.has_value
            THEN IF has_cycle(edges[i], E) THEN [nodes |-> N, edges |-> E, threw |-> TRUE]
                 ELSE DeserializeEdges(edges, i + 1, N, E \cup {edges[i]})
            ELSE DeserializeEdges(edges, i + 1, N, E)

\* Graph::from_json with a factory that makes the node of the given name
from_json(j) == DeserializeEdges(j.edges, 1, SeqRange(j.nodes), {})

\* deserialized_graph.from_json(original_graph.to_json(), factory), as in
\* test_serialization; the deserialized graph is an object of its own
RoundTrip ==
    /\ Quiescent
    /\ \E j \in serialize_graph(nodes_, edges_) :
          lastOp' = [op |-> "from_json", json |-> j, graph |-> from_json(j)]
    /\ UNCHANGED <<mainVarsButLastOp, sideVars>>

NextJson ==
    \/ \E n \in EditNames : AddNode(n)
    \/ \E n \in EditNames : RemoveNode(n)
    \/ \E f \in EditNames, t \in EditNames : AddEdge(Edge(f, t))
    \/ RoundTrip

SpecJson == Init /\ [][NextJson]_vars

\* A cache with a policy, used on its own
NextCache ==
    \/ \E k \in PolicyKinds : NewCache(k)
    \/ \E v \in CacheValues : CacheStore(v)
    \/ \E v \in CacheValues : CacheGet(v)
    \/ CacheClear

SpecCache == Init /\ [][NextCache]_vars

\* A fractal store used on its own
NextTree ==
    \/ \E v \in TreeValues, l \in TreeLevels : Store(v, l)
    \/ MergeAll

SpecTree == Init /\ [][NextTree]_vars

\* A consumer awaiting tasks that complete on other threads
NextTask ==
    \/ \E i \in TaskIds : return_value(i)
    \/ \E i \in TaskIds : final_suspend(i)
    \/ await_ready
    \/ await_suspend
    \/ await_resume

SpecTask == Init /\ [][NextTask]_vars

\* A thread pool: its users enqueue tasks, its owner destroys it
NextPool ==
    \/ enqueue
    \/ \E w \in PoolWorkers : WorkerTake(w)
    \/ \E w \in PoolWorkers : WorkerRun(w)
    \/ Shutdown

SpecPool == Init /\ [][NextPool]_vars

\* ------------------------------------------------------------------ claims
Ancestors(n) == {a \in Names : Reaches(a, n, edges_)}
Fails(n) == error_type_[n] # "None"
ExecuteDone == pc = "done"
IsDiamond == nodes_ = Names /\ edges_ = Diamond
Last(seq) == seq[Len(seq)]
InSeq(x, seq) == \E i \in 1..Len(seq) : seq[i] = x
NoRepeat(seq) == \A i, j \in 1..Len(seq) : seq[i] = seq[j] => i = j

\* C1 (SpecGraph): after any sequence of add_node, add_edge and remove_node
\* calls on an empty graph, the edge relation has no cycle, self-loops included.
C1_EdgesAcyclic == AcyclicEdges(edges_)

\* C2 (SpecGraph): add_edge(e) rejects e exactly when e.from is reachable from
\* e.to (or equal to it) in the edge set held before the call, and inserts e
\* otherwise.
C2_RejectsIffClosesCycle ==
    lastOp.op = "add_edge" =>
        /\ lastOp.rejected <=> ReachesOrSame(lastOp.edge.to, lastOp.edge.from, lastOp.pre)
        /\ ~lastOp.rejected => lastOp.edge \in edges_

\* C3 (SpecExec): when execute has completed, every node that neither fails
\* itself nor has a failing ancestor has had compute invoked and its store
\* yields a value at level 0.
C3_ExecutorComplete ==
    ExecuteDone =>
        \A n \in nodes_ :
            (~Fails(n) /\ \A a \in Ancestors(n) : ~Fails(a)) =>
                /\ n \in DOMAIN trace.results
                /\ get(value_storage_[n], 0).has_value

\* C5 (SpecExec): in the diamond a->b, a->c, b->d, c->d with a failing, after
\* execute the entry of d has source a, its path contains both b and c, and d
\* is the last element of the path.
C5_DiamondBothBranches ==
    (ExecuteDone /\ IsDiamond /\ Fails("a")) =>
        /\ "d" \in DOMAIN node_errors_
        /\ node_errors_["d"].source = "a"
        /\ InSeq("b", node_errors_["d"].path)
        /\ InSeq("c", node_errors_["d"].path)
        /\ Last(node_errors_["d"].path) = "d"

\* C5 as amended (SpecExec): in the diamond with a failing, after execute the
\* entry of d has source a, d is the last element of its path, and the path
\* contains exactly one of b and c.
C5_DiamondOneBranch ==
    (ExecuteDone /\ IsDiamond /\ Fails("a")) =>
        /\ "d" \in DOMAIN node_errors_
        /\ node_errors_["d"].source = "a"
        /\ InSeq("b", node_errors_["d"].path) # InSeq("c", node_errors_["d"].path)
        /\ Last(node_errors_["d"].path) = "d"

C5_Witness ==
    /\ ExecuteDone /\ IsDiamond /\ Fails("a")
    /\ "d" \in DOMAIN node_errors_
    /\ InSeq("c", node_errors_["d"].path)

\* C6 (SpecExec): after execute, for every entry of the error table that has a
\* source, the source followed by the propagation path is a directed path of
\* the graph that ends at the node the entry is recorded under, without a
\* repeated name.
C6_PathFollowsEdges ==
    ExecuteDone =>
        \A k \in DOMAIN node_errors_ :
            node_errors_[k].source # None =>
                LET chain == <<node_errors_[k].source>> \o node_errors_[k].path
                IN /\ NoRepeat(chain)
                   /\ Last(chain) = k
                   /\ \A i \in 1..(Len(chain) - 1) : Edge(chain[i], chain[i + 1]) \in edges_

\* C7 (SpecExec): within one execute, a step never replaces or changes an
\* entry the error table already holds.
C7_FirstErrorKept ==
    [][~Quiescent =>
         \A k \in DOMAIN node_errors_ :
             k \in DOMAIN node_errors_' /\ node_errors_'[k] = node_errors_[k]]_vars

\* C8 (SpecExec): when a node's compute has resolved with an error, the node's
\* completion callbacks have been called with that error result.
C8_CallbacksSeeErrors ==
    \A n \in DOMAIN trace.results :
        trace.results[n].has_error =>
            /\ n \in DOMAIN trace.notified
            /\ trace.notified[n] = trace.results[n]

C10_PassesBeforeCompute ==
    (pc # "idle" /\ DOMAIN trace.results # {}) => trace.passes = optimization_passes_

\* C11 (SpecExec): execute dispatches the execution of each source node to the
\* worker pool: every compute_impl of an execute runs on a pool worker (which
\* two independent nodes need in order to be in progress at the same time).
C11_ComputeOnPoolWorkers ==
    \A i \in 1..Len(trace.impl) : trace.threads[i] \in PoolWorkers

\* C12 (SpecTask): for every task the consumer awaits, the consumer is
\* continued at most once, and exactly once when the producer has completed
\* its final suspend and the consumer has passed await_ready / await_suspend
\* for that task.
C12_ResumedExactlyOnce ==
    \A i \in TaskIds :
        /\ consumer.continued[i] <= 1
        /\ (/\ producer[i] = "done"
            /\ \/ consumer.task > i
               \/ consumer.task = i /\ consumer.pc \in {"suspended", "await_resume", "finished"})
           => consumer.continued[i] = 1

\* C13 (SpecPool): no worker has exited while the queue holds a task, no task
\* is run twice, and when all workers have exited after a shutdown every task
\* that enqueue accepted has been run exactly once.
C13_ShutdownDrains ==
    /\ \A t \in 1..MaxSubmits : pool_log.ran[t] <= 1
    /\ (\E w \in PoolWorkers : workers_[w].pc = "exited") => tasks_ = <<>>
    /\ (\A w \in PoolWorkers : workers_[w].pc = "exited") =>
           \A t \in pool_log.accepted : pool_log.ran[t] = 1

C13_Witness ==
    /\ \A w \in PoolWorkers : workers_[w].pc = "exited"
    /\ pool_log.queued_at_stop >= 2
    /\ \A t \in pool_log.accepted : pool_log.ran[t] = 1

\* C14 (SpecNode): for a node whose compute_impl succeeds, compute_impl is
\* invoked at most once per level: a later compute at the same level, or a
\* second execute, returns the stored value.
C14_ComputeImplOncePerLevel ==
    \A i, j \in 1..Len(trace.impl) :
        (/\ ~Fails(trace.impl[i])
         /\ trace.impl[i] = trace.impl[j]
         /\ trace.levels[i] = trace.levels[j]) => i = j

\* What C15 says of a compute call that has just returned
C15_Refused ==
    /\ lastOp.result.has_error
    /\ lastOp.result.error.type = "PrecisionError"
    /\ lastOp.result.error.source = lastOp.node
    /\ Len(trace.impl) = lastOp.pre.impl
    /\ value_storage_[lastOp.node] = lastOp.pre.storage
    /\ current_precision_level_[lastOp.node] = lastOp.pre.level

\* C15 (SpecNode): compute(level) with level > max_level resolves with a
\* Precision error whose source is the node, without invoking compute_impl,
\* without storing a value and without changing current_level.
C15_AboveWindowRefused ==
    (lastOp.op = "compute" /\ lastOp.level > max_precision_level_[lastOp.node]) => C15_Refused

\* C15 as amended (SpecNode): the same, for a node that has no entry in the
\* error table of its graph when compute is called.
C15_AboveWindowRefusedNoEntry ==
    (/\ lastOp.op = "compute"
     /\ lastOp.level > max_precision_level_[lastOp.node]
     /\ ~lastOp.pre.entry) => C15_Refused

C15_Witness ==
    /\ lastOp.op = "compute"
    /\ lastOp.level > max_precision_level_[lastOp.node]
    /\ lastOp.level <= max_precision_depth
    /\ ~lastOp.pre.entry
    /\ lastOp.pre.storage.pending_updates_ # EmptyMap
    /\ lastOp.pre.level # lastOp.level
    /\ C15_Refused

\* C16 (SpecNode): compute(level) with level outside [min_level, max_level],
\* below min_level included, resolves with a Precision error (for a node
\* without an entry in the error table).
C16_OutsideWindowRefused ==
    (/\ lastOp.op = "compute"
     /\ ~lastOp.pre.entry
     /\ \/ lastOp.level < min_precision_level_[lastOp.node]
        \/ lastOp.level > max_precision_level_[lastOp.node])
    => (lastOp.result.has_error /\ lastOp.result.error.type = "PrecisionError")

\* C17 (SpecNode): after adjust_precision(target), current_level is target
\* clamped into [min_level, max_level].
C17_AdjustClamps ==
    lastOp.op = "adjust_precision" =>
        LET mn == min_precision_level_[lastOp.node]
            mx == max_precision_level_[lastOp.node]
        IN current_precision_level_[lastOp.node] =
              IF lastOp.level < mn THEN mn ELSE IF lastOp.level > mx THEN mx ELSE lastOp.level

\* C18 (SpecNode): set_precision_range(min, max) with max above the store's
\* depth or min > max leaves min_level, max_level and current_level as they
\* were; any other call sets the window to [min, max].
C18_RangeValidated ==
    lastOp.op = "set_precision_range" =>
        LET n == lastOp.node
        IN IF lastOp.max > value_storage_[n].max_depth_ \/ lastOp.min > lastOp.max
           THEN /\ min_precision_level_[n] = lastOp.pre.min
                /\ max_precision_level_[n] = lastOp.pre.max
                /\ current_precision_level_[n] = lastOp.pre.level
           ELSE /\ min_precision_level_[n] = lastOp.min
                /\ max_precision_level_[n] = lastOp.max

C18_Witness ==
    /\ lastOp.op = "set_precision_range"
    /\ lastOp.min > lastOp.max
    /\ lastOp.max <= max_precision_depth
    /\ lastOp.pre.min # 0
    /\ min_precision_level_[lastOp.node] = lastOp.pre.min
    /\ current_precision_level_[lastOp.node] # 0

\* C19 (SpecTree): directly after store(v, L), get(L) returns a value, for
\* every level L, also one above max_depth.
C19_GetAfterStore ==
    (tree_log # <<>> /\ Last(tree_log).op = "store") =>
        get(tree, Last(tree_log).level).has_value

\* The calls of test_compression: store(1.0, 0); store(1.01, 1);
\* store(1.5, 2); merge_all()
C20_Scenario ==
    tree_log = <<TreeCall("store", Unit, 0), TreeCall("store", Unit + Unit \div 100, 1),
                 TreeCall("store", Unit + Unit \div 2, 2), TreeCall("merge_all", 0, 0)>>

\* C20 (SpecTree): after the calls of test_compression on a store with
\* max_depth 4 and threshold 0.1, get(1) returns none and get(2) returns 1.5.
C20_RemovedLevelIsNone ==
    C20_Scenario =>
        /\ ~get(tree, 1).has_value
        /\ get(tree, 2) = Some(Unit + Unit \div 2)

\* C20 as amended (SpecTree): after those calls level 1 is no longer stored,
\* get(1) returns the value of level 0 expanded to level 1, which is 1.0, and
\* get(2) returns 1.5.
C20_RemovedLevelFallsBack ==
    C20_Scenario =>
        /\ 1 \notin DOMAIN tree.absolute_values_
        /\ get(tree, 1) = Some(Unit)
        /\ get(tree, 2) = Some(Unit + Unit \div 2)

C20_Witness == C20_Scenario /\ DOMAIN tree.absolute_values_ = {0, 2}

\* C21 (SpecTree): immediately after merge_all, any two adjacent levels that
\* are both present in the absolute map hold values that differ by at least
\* compression_threshold.
C21_AdjacentLevelsApart ==
    (tree_log # <<>> /\ Last(tree_log).op = "merge_all") =>
        \A l \in DOMAIN tree.absolute_values_ :
            (l + 1) \in DOMAIN tree.absolute_values_ =>
                ~(Abs(tree.absolute_values_[l] - tree.absolute_values_[l + 1])
                    < tree.compression_threshold_)

C21_Witness ==
    /\ tree_log # <<>> /\ Last(tree_log).op = "merge_all"
    /\ \E l \in DOMAIN tree.absolute_values_ : (l + 1) \in DOMAIN tree.absolute_values_
    /\ \E i \in 1..Len(tree_log) :
          /\ tree_log[i].op = "store"
          /\ ClampLevel(tree, tree_log[i].level) \notin DOMAIN tree.absolute_values_

\* C22 (SpecCache): after any sequence of store, get and clear on a cache with
\* a policy, the number of cached elements is at most the policy's max_size().
C22_CacheWithinMaxSize == Cardinality(gcache_) <= max_size(policy_)

\* The element of the cache, before the last call, whose last use is the oldest
C23_Oldest ==
    CHOOSE v \in cache_log.last.pre_cache :
        \A w \in cache_log.last.pre_cache : cache_log.last.pre_use[v] <= cache_log.last.pre_use[w]

\* C23 (SpecCache): with an LRU policy, a store of a new element into a full
\* cache evicts exactly the element whose most recent store or get hit is the
\* oldest.
C23_LruEvictsOldest ==
    (/\ policy_.kind = "LRU"
     /\ cache_log.last.op = "store"
     /\ cache_log.last.value \notin cache_log.last.pre_cache
     /\ Cardinality(cache_log.last.pre_cache) = capacity_)
    => gcache_ = (cache_log.last.pre_cache \ {C23_Oldest}) \cup {cache_log.last.value}

\* capacity 2: insert 1, insert 2, access 1, insert 3 leaves {1, 3}
C23_Witness ==
    /\ policy_.kind = "LRU"
    /\ cache_log.last.op = "store" /\ cache_log.last.value = 3
    /\ cache_log.last.pre_cache = {1, 2}
    /\ cache_log.last.pre_use[1] > cache_log.last.pre_use[2]
    /\ cache_log.ops = 4
    /\ gcache_ = {1, 3}

\* C24 (SpecGraph): after any sequence of add_node, add_edge and remove_node,
\* both end points of every edge are in the node set.
C24_EndpointsInNodes ==
    \A e \in edges_ : e.from \in nodes_ /\ e.to \in nodes_

\* C25 (SpecEdit): a step remove_node(n) removes n from the node set, removes
\* exactly the edges that have n as an end point, erases the error-table
\* entry keyed by n, and leaves every other node, edge and entry as it was.
C25_RemoveNodeFrame ==
    [][\A n \in EditNames :
          (RemoveNode(n) /\ lastOp' = [op |-> "remove_node", node |-> n]) =>
              /\ nodes_' = nodes_ \ {n}
              /\ edges_' = {e \in edges_ : e.from # n /\ e.to # n}
              /\ DOMAIN node_errors_' = (DOMAIN node_errors_) \ {n}
              /\ \A k \in DOMAIN node_errors_' : node_errors_'[k] = node_errors_[k]]_vars

C25_Witness ==
    /\ lastOp.op = "remove_node"
    /\ lastOp.node \notin nodes_
    /\ lastOp.node \notin DOMAIN node_errors_
    /\ node_errors_ # EmptyMap
    /\ \E k \in DOMAIN node_errors_ : node_errors_[k].source = lastOp.node
    /\ edges_ # {}

\* C26 (SpecEdit): in every reachable state, every key of the error table is
\* the name of a node that is in the node set.
C26_ErrorKeysAreNodes == DOMAIN node_errors_ \subseteq nodes_

C26_Witness ==
    /\ lastOp.op = "remove_node"
    /\ lastOp.node \in DOMAIN trace.results
    /\ trace.results[lastOp.node].has_error
    /\ node_errors_ # EmptyMap

\* C27 (SpecEdit): a step in which add_edge rejects an edge leaves the node
\* set, the edge set and the error table as they were.
C27_RejectedEdgeFrame ==
    [][(lastOp'.op = "add_edge" /\ lastOp'.rejected /\ lastOp' # lastOp) =>
          /\ nodes_' = nodes_
          /\ edges_' = edges_
          /\ node_errors_' = node_errors_]_vars

C27_Witness ==
    /\ lastOp.op = "add_edge" /\ lastOp.rejected
    /\ lastOp.edge.from # lastOp.edge.to
    /\ lastOp.edge \notin edges_
    /\ node_errors_ # EmptyMap

\* C28 (SpecPrune): after a run of DeadNodeElimination every node left in the
\* node set is an output node of the graph as it was before the pass (a node
\* without outgoing edges) or has a path of edges of that graph to one.
C28_DnePasses ==
    /\ optimization_passes_ # <<>>
    /\ \A i \in DOMAIN optimization_passes_ : optimization_passes_[i] = "DeadNodeElimination"

C28_RemainingReachOutput ==
    (lastOp.op = "optimize" /\ C28_DnePasses) =>
        \A n \in nodes_ :
            \E o \in get_output_nodes(lastOp.nodes, lastOp.edges) :
                ReachesOrSame(n, o, lastOp.edges)

C28_Witness ==
    /\ lastOp.op = "optimize" /\ C28_DnePasses
    /\ lastOp.nodes \ nodes_ # {}
    /\ nodes_ # {}

\* C29 (SpecPasses): after a run of DeadNodeElimination on a graph that has
\* edges, a node that no edge touched is no longer in the node set.
C29_IsolatedNodeRemoved ==
    (lastOp.op = "optimize" /\ C28_DnePasses /\ lastOp.edges # {}) =>
        \A n \in lastOp.nodes :
            (\A e \in lastOp.edges : e.from # n /\ e.to # n) => n \notin nodes_

\* C30 (SpecFusion): after a run of NodeFusion, for every linear chain of two
\* or more nodes of the graph as it was before, the node set has exactly one
\* new node (the fused node), the chain's nodes are gone, every predecessor
\* of the chain's first node has an edge to the fused node and the fused node
\* has an edge to every successor of the chain's last node.
C30_Link(x, y, E) ==
    /\ get_outgoing_edges(E, x) = {Edge(x, y)}
    /\ get_incoming_edges(E, y) = {Edge(x, y)}

C30_Chains(N, E) ==
    {c \in UNION {[1..k -> N] : k \in 2..Cardinality(N)} :
        /\ \A i \in 1..(Len(c) - 1) : C30_Link(c[i], c[i + 1], E)
        /\ ~\E p \in N : C30_Link(p, c[1], E)
        /\ ~\E q \in N : C30_Link(c[Len(c)], q, E)}

C30_ChainReplacedByFusedNode ==
    (lastOp.op = "optimize" /\ optimization_passes_ = <<"NodeFusion">>) =>
        \A c \in C30_Chains(lastOp.nodes, lastOp.edges) :
            /\ \A i \in DOMAIN c : c[i] \notin nodes_
            /\ \E f \in nodes_ \ lastOp.nodes :
                  /\ \A e \in get_incoming_edges(lastOp.edges, c[1]) : Edge(e.from, f) \in edges_
                  /\ \A e \in get_outgoing_edges(lastOp.edges, c[Len(c)]) : Edge(f, e.to) \in edges_
            /\ Cardinality(nodes_ \ lastOp.nodes) = Cardinality(C30_Chains(lastOp.nodes, lastOp.edges))

\* C31 (SpecPasses): when execute has returned on a graph from which
\* NodeFusion removed a chain, the fused node has been computed and its result
\* is the value the chain's last node computes.
C31_FusedNodeComputed ==
    (pc = "done" /\ optimization_passes_ = <<"NodeFusion">> /\ nodes_ # GraphNames) =>
        \E f \in DOMAIN trace.results :
            /\ f \notin Names
            /\ trace.results[f] = ResultValue(Answer)

\* C32 (SpecPrecision): after a run of PrecisionOptimizationPass the
\* current levels of the two end points of every edge differ by at most 1.
C32_PrecisionPasses == optimization_passes_ = <<"PrecisionOptimization">>

C32_NeighboursWithinOne ==
    (lastOp.op = "optimize" /\ C32_PrecisionPasses) =>
        \A e \in edges_ :
            Abs(current_precision_level_[e.from] - current_precision_level_[e.to]) <= 1

\* C32, amended: after one run of PrecisionOptimizationPass every node of an
\* acyclic graph is at the highest level that an output node it reaches (or
\* is) had before the pass, moved into the node's own window [min, max].
C32_Demand(n) ==
    LET outs == {o \in get_output_nodes(lastOp.nodes, lastOp.edges) :
                    ReachesOrSame(n, o, lastOp.edges)}
    IN CHOOSE x \in {lastOp.levels[o] : o \in outs} : \A o \in outs : lastOp.levels[o] <= x

C32_InWindow(v, n) ==
    IF v < min_precision_level_[n] THEN min_precision_level_[n]
    ELSE IF v > max_precision_level_[n] THEN max_precision_level_[n] ELSE v

C32_LevelIsClampedDemand ==
    (lastOp.op = "optimize" /\ C32_PrecisionPasses) =>
        \A n \in nodes_ :
            current_precision_level_[n] = C32_InWindow(C32_Demand(n), n)

C32_Witness ==
    /\ lastOp.op = "optimize" /\ C32_PrecisionPasses
    /\ \E e \in edges_ :
          /\ current_precision_level_[e.from] # lastOp.levels[e.from]
          /\ current_precision_level_[e.from] - current_precision_level_[e.to] > 1

\* C33 (SpecPrecision): after a run of CompressionOptimizationPass on a
\* graph of two or more nodes in which some node's level was above its
\* minimum, some node has a lower level than it had before the run.
C33_SomeNodeLower ==
    (/\ lastOp.op = "optimize"
     /\ optimization_passes_ = <<"CompressionOptimization">>
     /\ Cardinality(lastOp.nodes) >= 2
     /\ \E n \in lastOp.nodes : lastOp.levels[n] > min_precision_level_[n])
    => \E n \in lastOp.nodes : current_precision_level_[n] < lastOp.levels[n]

\* C34 (SpecJson): the graph that from_json builds from to_json's document
\* has the node names and the (from-name, to-name) edges of the serialized
\* graph.
C34_RoundTrip ==
    lastOp.op = "from_json" =>
        /\ lastOp.graph.nodes = nodes_
        /\ lastOp.graph.edges = edges_

\* C35 (SpecNode): a compute call on a node whose name has an entry in the
\* graph's error table resolves with that entry and invokes no compute_impl,
\* stores no value, fires no callback and leaves the current level, the
\* computation count and the table as they were, whatever the level asked
\* for (also one above max_level).
C35_EntryWins ==
    [][(calls' = calls + 1 /\ lastOp'.pre.entry) =>
          /\ lastOp'.result = ResultError(node_errors_[lastOp'.node])
          /\ node_errors_' = node_errors_
          /\ Len(trace'.impl) = Len(trace.impl)
          /\ trace'.notified = trace.notified
          /\ value_storage_' = value_storage_
          /\ computation_count_' = computation_count_
          /\ current_precision_level_' = current_precision_level_]_vars

C35_Witness ==
    /\ lastOp.op = "compute"
    /\ lastOp.pre.entry
    /\ lastOp.level > max_precision_level_[lastOp.node]
    /\ lastOp.level # current_precision_level_[lastOp.node]
    /\ lastOp.result.has_error
    /\ lastOp.result.error.type # "PrecisionError"

\* C36 (SpecExec): when execute has returned, the names in the error table are
\* closed under successors: for every edge whose head is a node of the graph,
\* an entry for the tail's name comes with an entry for the head's name.
C36_ClosedUnderSuccessors ==
    pc = "done" =>
        \A e \in edges_ :
            (e.to \in nodes_ /\ e.from \in DOMAIN node_errors_) => e.to \in DOMAIN node_errors_

C36_Witness ==
    /\ pc = "done"
    /\ \E e1 \in edges_, e2 \in edges_ :
          /\ e1.to = e2.from
          /\ e1.from \in DOMAIN node_errors_
          /\ node_errors_[e1.from].source = e1.from
          /\ e2.to \in DOMAIN node_errors_
          /\ node_errors_[e2.to].source = e1.from

C38_LevelInWindow ==
    \A n \in nodes_ :
        /\ min_precision_level_[n] <= current_precision_level_[n]
        /\ current_precision_level_[n] <= max_precision_level_[n]

\* C39 (SpecCycle): execute terminates on every graph, also one with a cycle
\* or without a source node: a started execute returns, it calls compute_impl
\* at most once per node, and at most |nodes| passes of the propagation loop
\* change the table.
C39_VisitsOnce ==
    \A i \in 1..Len(trace.impl), j \in 1..Len(trace.impl) :
        trace.impl[i] = trace.impl[j] => i = j

C39_Terminates ==
    /\ [](C39_VisitsOnce /\ trace.rounds <= Cardinality(nodes_))
    /\ (pc \notin {"idle", "done"}) ~> (pc = "done")

C39_Witness ==
    /\ pc = "done"
    /\ lastOp.op = "none"
    /\ ~AcyclicEdges(edges_)
    /\ SourceNodes(nodes_, edges_) = {}

C39_WitnessRounds ==
    /\ pc = "done"
    /\ ~AcyclicEdges(edges_)
    /\ trace.rounds = 2

\* C40 (SpecLock): no thread acquires a node's mutex while it holds the
\* graph's error_mutex_; a thread that acquires a mutex while holding one
\* holds a node's mutex and acquires error_mutex_; and no set of threads in
\* compute, execute, get_node_error and remove_node calls wait for each other.
C40_Held(t) == {m \in LockNodes \cup {ErrorMutex} : Owner(m) = t}

C40_Wants(t) ==
    IF threads[t] # NoCall /\ Head(threads[t].rest).call = "lock"
    THEN {Head(threads[t].rest).m} ELSE {}

C40_Blocked(t) == \E m \in C40_Wants(t) : Owner(m) # None

C40_NoDeadlock ==
    /\ \A t \in LockThreads : \A m \in C40_Wants(t) :
          /\ m # ErrorMutex => C40_Held(t) = {}
          /\ m = ErrorMutex => ErrorMutex \notin C40_Held(t)
    /\ \A S \in SUBSET LockThreads :
          S # {} => \E t \in S : ~C40_Blocked(t) \/ \E m \in C40_Wants(t) : Owner(m) \notin S

C40_Witness ==
    \E t1 \in LockThreads, t2 \in LockThreads, n \in LockNodes :
        /\ threads[t1].op = "compute"
        /\ mutex_[n] = t1
        /\ C40_Wants(t1) = {ErrorMutex}
        /\ error_mutex_ = t2
        /\ threads[t2].op \in {"execute", "remove_node"}
        /\ threads[t2].node = n

====
